---- MODULE Spec2Model ----
(***************************************************************************)
(* A model of the SwipeStreet card generator (content/card_generator.py):  *)
(* the text pipeline of generate_card_rules, the service-backed path of    *)
(* generate_card_ai with its fallbacks, load_data, and the batch loop and  *)
(* deduplication of main(); and of the SwipeStreet backend                  *)
(* (backend/main.py): the registration of users and the progress and quiz  *)
(* counters kept in its database.                                          *)
(*                                                                         *)
(* Python strings are TLA+ strings; a character is a string of length 1.   *)
(* Regular expressions are written out as matchers: MatchEnd(pat, s, i) is *)
(* the position after the match of pattern pat that starts at position i   *)
(* of s, and 0 when the pattern does not match there.                      *)
(***************************************************************************)
EXTENDS Integers, Sequences, FiniteSets, TLC

(***************************************************************************)
(* Characters and strings                                                  *)
(***************************************************************************)
Ch(s, i) == SubSeq(s, i, i)

Min(a, b) == IF a < b THEN a ELSE b

Max(a, b) == IF a > b THEN a ELSE b

LowerSet ==
    { "a", "b", "c", "d", "e", "f", "g", "h", "i", "j", "k", "l", "m",
      "n", "o", "p", "q", "r", "s", "t", "u", "v", "w", "x", "y", "z" }

UpperSet ==
    { "A", "B", "C", "D", "E", "F", "G", "H", "I", "J", "K", "L", "M",
      "N", "O", "P", "Q", "R", "S", "T", "U", "V", "W", "X", "Y", "Z" }

DigitSet == {"0", "1", "2", "3", "4", "5", "6", "7", "8", "9"}

\* \s of the re module and the characters str.strip() and str.split() take
\* for whitespace, on the ASCII range: tab, line feed, vertical tab, form
\* feed, carriage return, the separators 28 to 31 and the space
SpaceSet == {" ", "\t", "\n", "", "\f", "\r", "", "", "", ""}

\* \w of the re module, on the ASCII range
WordSet == LowerSet \cup UpperSet \cup DigitSet \cup {"_"}

\* str.lower() and str.upper() on a letter
LowerMap ==
    ("A" :> "a") @@ ("B" :> "b") @@ ("C" :> "c") @@ ("D" :> "d") @@ ("E" :> "e") @@ ("F" :> "f")
    @@ ("G" :> "g") @@ ("H" :> "h") @@ ("I" :> "i") @@ ("J" :> "j") @@ ("K" :> "k") @@ ("L" :> "l")
    @@ ("M" :> "m") @@ ("N" :> "n") @@ ("O" :> "o") @@ ("P" :> "p") @@ ("Q" :> "q") @@ ("R" :> "r")
    @@ ("S" :> "s") @@ ("T" :> "t") @@ ("U" :> "u") @@ ("V" :> "v") @@ ("W" :> "w") @@ ("X" :> "x")
    @@ ("Y" :> "y") @@ ("Z" :> "z")

UpperMap ==
    ("a" :> "A") @@ ("b" :> "B") @@ ("c" :> "C") @@ ("d" :> "D") @@ ("e" :> "E") @@ ("f" :> "F")
    @@ ("g" :> "G") @@ ("h" :> "H") @@ ("i" :> "I") @@ ("j" :> "J") @@ ("k" :> "K") @@ ("l" :> "L")
    @@ ("m" :> "M") @@ ("n" :> "N") @@ ("o" :> "O") @@ ("p" :> "P") @@ ("q" :> "Q") @@ ("r" :> "R")
    @@ ("s" :> "S") @@ ("t" :> "T") @@ ("u" :> "U") @@ ("v" :> "V") @@ ("w" :> "W") @@ ("x" :> "X")
    @@ ("y" :> "Y") @@ ("z" :> "Z")

LowerCh(c) == IF c \in UpperSet THEN LowerMap[c] ELSE c

UpperCh(c) == IF c \in LowerSet THEN UpperMap[c] ELSE c

\* the least element of a non-empty set of integers
MinOf(S) == CHOOSE m \in S : \A k \in S : m <= k

MaxOf(S) == 0 - MinOf({0 - k : k \in S})

\* the least and the greatest element of a set of positions, 0 when the set is empty
FirstOf(S) == IF S = {} THEN 0 ELSE MinOf(S)

LastOf(S) == IF S = {} THEN 0 ELSE MaxOf(S)

\* position a, or b when there is none (a = 0)
Else(a, b) == IF a = 0 THEN b ELSE a

RECURSIVE JoinRange(_, _, _)
\* the concatenation of the strings ss[lo..hi] (halving, to keep the evaluation shallow)
JoinRange(ss, lo, hi) ==
    IF lo > hi THEN ""
    ELSE IF lo = hi THEN ss[lo]
    ELSE LET mid == (lo + hi) \div 2
         IN  JoinRange(ss, lo, mid) \o JoinRange(ss, mid + 1, hi)

\* "".join(ss)
Join(ss) == JoinRange(ss, 1, Len(ss))

\* str.lower()
Lower(s) == Join([i \in 1..Len(s) |-> LowerCh(Ch(s, i))])

\* s[i:] with i a 1-based position
From(s, i) == SubSeq(s, i, Len(s))

\* s[:n]
Prefix(s, n) == SubSeq(s, 1, Min(n, Len(s)))

\* s[-n:]
Suffix(s, n) == SubSeq(s, Max(1, Len(s) - n + 1), Len(s))

\* the literal p occurs in s at position i
At(s, i, p) == i >= 1 /\ i + Len(p) - 1 <= Len(s) /\ SubSeq(s, i, i + Len(p) - 1) = p

StartsWith(s, p) == At(s, 1, p)

EndsWith(s, p) == At(s, Len(s) - Len(p) + 1, p)

\* str.find(p, start): the first position >= i where p occurs, 0 when none
FindFrom(s, p, i) == FirstOf({j \in i..(Len(s) - Len(p) + 1) : At(s, j, p)})

\* p in s
Contains(s, p) == \E j \in 1..(Len(s) - Len(p) + 1) : At(s, j, p)

\* the first position >= i whose character is not in set S (greedy S*)
SkipSet(s, i, S) ==
    IF i >= 1 /\ i <= Len(s) /\ Ch(s, i) \notin S THEN i
    ELSE Else(FirstOf({j \in Max(i, 1)..Len(s) : Ch(s, j) \notin S}), Max(i, Len(s) + 1))

\* the last position <= i whose character is not in set S, 0 when none
SkipSetBack(s, i, S) ==
    IF i >= 1 /\ i <= Len(s) /\ Ch(s, i) \notin S THEN i
    ELSE LastOf({j \in 1..i : Ch(s, j) \notin S})

\* str.strip()
Strip(s) == SubSeq(s, SkipSet(s, 1, SpaceSet), SkipSetBack(s, Len(s), SpaceSet))

\* str.rstrip(chars)
RStrip(s, S) == SubSeq(s, 1, SkipSetBack(s, Len(s), S))

\* \b of the re module at position i (between i-1 and i)
IsWordAt(s, i) == i >= 1 /\ i <= Len(s) /\ Ch(s, i) \in WordSet

Boundary(s, i) == IsWordAt(s, i - 1) # IsWordAt(s, i)

\* the first literal of the sequence ps that occurs in s at i, as the position after it; 0 when none
RECURSIVE AltEnd(_, _, _, _)
AltEnd(s, i, ps, k) ==
    IF k > Len(ps) THEN 0
    ELSE IF At(s, i, ps[k]) THEN i + Len(ps[k])
    ELSE AltEnd(s, i, ps, k + 1)

(***************************************************************************)
(* clean_text and its patterns                                             *)
(***************************************************************************)
\* (?:\.\d+)? at d: the position after it
FractionEnd(s, d) ==
    IF At(s, d, ".") /\ d + 1 <= Len(s) /\ Ch(s, d + 1) \in DigitSet
    THEN SkipSet(s, d + 1, DigitSet)
    ELSE d

\* \d+(?:\.\d+)? at i: the position after it, 0 when no digit is at i
DecimalEnd(s, i) ==
    IF ~(i <= Len(s) /\ Ch(s, i) \in DigitSet) THEN 0
    ELSE FractionEnd(s, SkipSet(s, i, DigitSet))

\* \d+ at i: the position after it, 0 when no digit is at i
DigitsEnd(s, i) == IF i <= Len(s) /\ Ch(s, i) \in DigitSet THEN SkipSet(s, i, DigitSet) ELSE 0

\* -\d+ at b, after the \w+ that runs from a + 1 to before b
DateLast(s, a, b) == IF b = a + 1 \/ ~At(s, b, "-") THEN 0 ELSE DigitsEnd(s, b + 1)

\* -\w+-\d+ at a
DateTail(s, a) == IF a = 0 \/ ~At(s, a, "-") THEN 0 ELSE DateLast(s, a, SkipSet(s, a + 1, WordSet))

\* on \d+-\w+-\d+ at i
DateEnd(s, i) == IF ~At(s, i, "on ") THEN 0 ELSE DateTail(s, DigitsEnd(s, i + 3))

\* .*?on \d+-\w+-\d+ from i: the end of the first date at or after i that no
\* line break separates from i, 0 when none
LazyDateEnd(s, i) ==
    DateEnd(s, FirstOf({j \in i..Else(FindFrom(s, "\n", i), Len(s)) : DateEnd(s, j) > 0}))

\* Where .*?(?=\.|$) stops, p being the next period and n the next line break
\* (0 when none): . does not cross a line break, $ also matches before a last one
SourceStop(s, p, n) ==
    IF p > 0 /\ (n = 0 \/ p < n) THEN p
    ELSE IF n = 0 THEN Len(s) + 1
    ELSE IF n = Len(s) THEN n
    ELSE 0

\* Source:.*?(?=\.|$) from i (after "Source:"): up to the next period or the end
SourceEnd(s, i) == SourceStop(s, FindFrom(s, ".", i), FindFrom(s, "\n", i))

\* the literal p (in lower case) occurs in s at position i, letter case ignored (re.IGNORECASE)
AtCI(s, i, p) ==
    /\ i >= 1
    /\ i + Len(p) - 1 <= Len(s)
    /\ LowerCh(Ch(s, i)) = Ch(p, 1)
    /\ Lower(SubSeq(s, i, i + Len(p) - 1)) = p

\* the first literal of the sequence ps that occurs in s at i, letter case ignored
RECURSIVE AltEndCI(_, _, _, _)
AltEndCI(s, i, ps, k) ==
    IF k > Len(ps) THEN 0
    ELSE IF AtCI(s, i, ps[k]) THEN i + Len(ps[k])
    ELSE AltEndCI(s, i, ps, k + 1)

\* The characters a match of each kind of pattern can open with
Openers ==
    ("exhibit" :> {"E"}) @@ ("exclusive" :> {"F"}) @@ ("source" :> {"S"})
    @@ ("percent" :> DigitSet) @@ ("dollar" :> {"$"}) @@ ("multiple" :> DigitSet)
    @@ ("amount" :> DigitSet)

\* a pattern: its kind k, for the kinds that carry one a word w, and the
\* characters its matches open with
Pat(k) == [k |-> k, w |-> "", first |-> Openers[k]]

WordPat(w) == [k |-> "word", w |-> w, first |-> {Ch(w, 1), UpperCh(Ch(w, 1))}]

\* \s* and one of the units, letter case ignored, after a number that ends before e
UnitAfter(s, e, units) == IF e = 0 THEN 0 ELSE AltEndCI(s, SkipSet(s, e, SpaceSet), units, 1)

\* \d+(?:\.\d+)? followed by \s* and one of the units, letter case ignored
UnitEnd(s, i, units) == UnitAfter(s, DecimalEnd(s, i), units)

\* the character c (letter case ignored) after a number that ends before e
SuffixEnd(s, e, c) == IF e > 0 /\ AtCI(s, e, c) THEN e + 1 ELSE 0

\* a number that ends before e, with its unit, if any, that ends before u
DollarEnd(e, u) == IF e = 0 THEN 0 ELSE IF u > 0 THEN u ELSE e

\* The patterns of clean_text, extract_numbers and remove_hedging
MatchEnd(pat, s, i) ==
    \* \bword\b
    CASE pat.k = "word"      -> IF AtCI(s, i, pat.w) /\ Boundary(s, i) /\ Boundary(s, i + Len(pat.w))
                                THEN i + Len(pat.w) ELSE 0
      [] pat.k = "exhibit"   -> IF At(s, i, "Exhibit ") THEN DigitsEnd(s, i + 8) ELSE 0
      [] pat.k = "exclusive" -> IF At(s, i, "For the exclusive use of") THEN LazyDateEnd(s, i + 24) ELSE 0
      [] pat.k = "source"    -> IF At(s, i, "Source:") THEN SourceEnd(s, i + 7) ELSE 0
      \* (\d+(?:\.\d+)?%)
      [] pat.k = "percent"   -> SuffixEnd(s, DecimalEnd(s, i), "%")
      \* (\$\d+(?:\.\d+)?(?:\s*(?:billion|million|bn|mn|B|M))?)
      [] pat.k = "dollar"    -> IF ~At(s, i, "$") THEN 0
                                ELSE DollarEnd(DecimalEnd(s, i + 1),
                                               UnitEnd(s, i + 1, <<"billion", "million", "bn", "mn", "b", "m">>))
      \* (\d+(?:\.\d+)?x)
      [] pat.k = "multiple"  -> SuffixEnd(s, DecimalEnd(s, i), "x")
      \* (\d+(?:\.\d+)?(?:\s*(?:billion|million|bn|mn)))
      [] pat.k = "amount"    -> UnitEnd(s, i, <<"billion", "million", "bn", "mn">>)

\* the first position >= i where pat matches, 0 when none
NextMatch(pat, s, i) ==
    FirstOf({j \in {k \in i..Len(s) : Ch(s, k) \in pat.first} : MatchEnd(pat, s, j) > 0})

RECURSIVE SubFrom(_, _, _, _)
\* re.sub from position i on, where j is the next match (0 when none): the
\* text before the match, repl, and the rest treated the same from the match's end
SubAt(pat, repl, s, i, j) ==
    IF j = 0 THEN From(s, i)
    ELSE SubSeq(s, i, j - 1) \o repl \o SubFrom(pat, repl, s, MatchEnd(pat, s, j))

\* re.sub(pat, repl, s): every match, left to right, replaced by repl
SubFrom(pat, repl, s, i) == SubAt(pat, repl, s, i, NextMatch(pat, s, i))

Sub(pat, repl, s) == SubFrom(pat, repl, s, 1)

\* re.sub(r'\s+', ' ', s): a whitespace character becomes a space when it opens
\* a run of whitespace and nothing otherwise
CollapseSpace(s) ==
    Join([i \in 1..Len(s) |->
            IF Ch(s, i) \notin SpaceSet THEN Ch(s, i)
            ELSE IF i > 1 /\ Ch(s, i - 1) \in SpaceSet THEN ""
            ELSE " "])

\* The four substitutions in the order of the code, then strip()
clean_text(text) ==
    Strip(Sub(Pat("source"), "",
              Sub(Pat("exclusive"), "",
                  Sub(Pat("exhibit"), "", CollapseSpace(text)))))

(***************************************************************************)
(* extract_numbers                                                         *)
(***************************************************************************)
RECURSIVE FindAllFrom(_, _, _)
\* re.findall where the next match runs from j to before e: that match, then
\* those from e on
FindAllAt(pat, s, j, e) == <<SubSeq(s, j, e - 1)>> \o FindAllFrom(pat, s, e)

\* The next match is at j, if any
FindAllNext(pat, s, j) == IF j = 0 THEN <<>> ELSE FindAllAt(pat, s, j, MatchEnd(pat, s, j))

\* re.findall(pat, s): the matches, left to right, none overlapping another
FindAllFrom(pat, s, i) == FindAllNext(pat, s, NextMatch(pat, s, i))

FindAll(pat, s) == FindAllFrom(pat, s, 1)

\* numbers[:n]
Take(seq, n) == SubSeq(seq, 1, Min(n, Len(seq)))

extract_numbers(text) ==
    Take(FindAll(Pat("percent"), text) \o FindAll(Pat("dollar"), text)
           \o FindAll(Pat("multiple"), text) \o FindAll(Pat("amount"), text), 3)

(***************************************************************************)
(* remove_hedging and clean_prose                                          *)
(***************************************************************************)
hedges ==
    << "may", "might", "could", "potentially", "likely", "probably", "possibly",
       "perhaps", "seems to", "appears to", "tends to", "in our view", "in our opinion" >>

RECURSIVE RemoveWords(_, _, _)
\* the loop of remove_hedging: one re.sub per hedge, in the order of the list
RemoveWords(ws, k, text) ==
    IF k > Len(ws) \/ text = "" THEN text
    ELSE RemoveWords(ws, k + 1, Sub(WordPat(ws[k]), "", text))

\* Some hedge matches somewhere in text: at the start of a word
AnyHedge(text) ==
    \E k \in 1..Len(text) :
        /\ IsWordAt(text, k)
        /\ ~IsWordAt(text, k - 1)
        /\ \E h \in 1..Len(hedges) : MatchEnd(WordPat(hedges[h]), text, k) > 0

\* Where no hedge matches, the loop leaves the text as it is
remove_hedging(text) ==
    Strip(CollapseSpace(IF AnyHedge(text) THEN RemoveWords(hedges, 1, text) ELSE text))

\* The removals of clean_prose: the alternatives of the leading phrase, and
\* whether an optional comma follows it; each is anchored at the start and
\* followed by \s*.
removals ==
    << [alts |-> <<"we believe that">>, comma |-> FALSE],
       [alts |-> <<"we believe">>, comma |-> FALSE],
       [alts |-> <<"we think that">>, comma |-> FALSE],
       [alts |-> <<"we think">>, comma |-> FALSE],
       [alts |-> <<"we expect that">>, comma |-> FALSE],
       [alts |-> <<"we expect">>, comma |-> FALSE],
       [alts |-> <<"our view is that">>, comma |-> FALSE],
       [alts |-> <<"it is important to note that">>, comma |-> FALSE],
       [alts |-> <<"importantly">>, comma |-> TRUE],
       [alts |-> <<"critically">>, comma |-> TRUE],
       [alts |-> <<"in conclusion">>, comma |-> TRUE],
       [alts |-> <<"the bottom line is that">>, comma |-> FALSE],
       [alts |-> <<"the key insight is that", "the key point is that",
                   "the key takeaway is that">>, comma |-> FALSE] >>

\* re.sub('^phrase,?\s*', '', text, flags=re.IGNORECASE) for one removal
RemoveLeading(r, text) ==
    LET e == AltEndCI(text, 1, r.alts, 1)
        c == IF r.comma /\ At(text, e, ",") THEN e + 1 ELSE e
    IN  IF e = 0 THEN text ELSE From(text, SkipSet(text, c, SpaceSet))

RECURSIVE RemoveAllLeading(_, _)
RemoveAllLeading(k, text) ==
    IF k > Len(removals) \/ text = "" THEN text
    ELSE RemoveAllLeading(k + 1, RemoveLeading(removals[k], text))

\* text[0].upper() + text[1:]
Capitalize(text) == IF text = "" THEN text ELSE UpperCh(Ch(text, 1)) \o From(text, 2)

clean_prose(text) == Capitalize(Strip(CollapseSpace(RemoveAllLeading(1, text))))

(***************************************************************************)
(* Splitting                                                               *)
(***************************************************************************)
\* re.split(r'[...]', s) for a set S of single characters: the pieces between
\* the characters of S, in order (also the empty ones)
SplitChars(s, S) ==
    LET D == {j \in 1..Len(s) : Ch(s, j) \in S}
        n == Cardinality(D)
        pos(k) == IF k = 0 THEN 0
                  ELSE IF k = n + 1 THEN Len(s) + 1
                  ELSE CHOOSE q \in D : Cardinality({r \in D : r < q}) = k - 1
    IN  [k \in 1..(n + 1) |-> SubSeq(s, pos(k - 1) + 1, pos(k) - 1)]

Terminal == {".", "!", "?"}

\* [s.strip() for s in re.split(r'[.!?]', text) if len(s.strip()) > n]
Sentences(text, n) ==
    LET parts == SplitChars(text, Terminal)
        stripped == [k \in 1..Len(parts) |-> Strip(parts[k])]
    IN  SelectSeq(stripped, LAMBDA f : Len(f) > n)

\* str.split()[-1]: the last run of non-whitespace characters, "" when none
LastWord(s) ==
    LET r == Strip(s)
        sp == {j \in 1..Len(r) : Ch(r, j) \in SpaceSet}
    IN  IF sp = {} THEN r ELSE From(r, MaxOf(sp) + 1)

(***************************************************************************)
(* is_complete_card                                                        *)
(***************************************************************************)
bad_endings ==
    { "such as", "including", "for example", "e.g.", "i.e.",
      "which", "that", "and", "or", "but", "the", "a", "an",
      "to", "of", "in", "on", "at", "by", "for", "with" }

research_fragments ==
    { "current estimates the current", "the understanding of", "entities such as",
      "consultancies", "volumes are wrong" }

\* re.search(r'\b(\w+)\s+\1\b', text): a word, whitespace, and the same word again
RepeatedWordAt(s, i) ==
    /\ IsWordAt(s, i)
    /\ Boundary(s, i)
    /\ LET e == SkipSet(s, i, WordSet)
           w == SkipSet(s, e, SpaceSet)
       IN  /\ w > e
           /\ At(s, w, SubSeq(s, i, e - 1))
           /\ Boundary(s, w + (e - i))

HasRepeatedWord(s) == \E i \in 1..Len(s) : RepeatedWordAt(s, i)

is_complete_card(card_text) ==
    LET text == Strip(card_text)
    IN  /\ \E c \in Terminal : EndsWith(text, c)
        /\ ~(EndsWith(text, "...") \/ Contains(Suffix(text, 20), "..."))
        /\ LET last == LastWord(RStrip(text, Terminal))
           IN  ~(last # "" /\ Lower(last) \in bad_endings)
        /\ Len(Sentences(text, 0)) >= 2
        /\ ~HasRepeatedWord(text)
        /\ \A frag \in research_fragments : ~Contains(Lower(text), frag)

(***************************************************************************)
(* Ticker extraction                                                       *)
(***************************************************************************)
LetterSet == LowerSet \cup UpperSet

\* \$([A-Z]{2,5})|(?<![a-zA-Z])([A-Z]{2,4})(?:\s+(?:US|LN|GR|FP)) at i
TickerEnd(s, i) ==
    LET d == SkipSet(s, i + 1, UpperSet) - (i + 1)
        r == SkipSet(s, i, UpperSet) - i
        w == SkipSet(s, i + r, SpaceSet)
    IN  IF At(s, i, "$") /\ d >= 2 THEN i + 1 + Min(d, 5)
        ELSE IF /\ ~(i > 1 /\ Ch(s, i - 1) \in LetterSet)
                /\ r >= 2 /\ r <= 4
                /\ w > i + r
             THEN AltEnd(s, w, <<"US", "LN", "GR", "FP">>, 1)
        ELSE 0

RECURSIVE TickerMatchesFrom(_, _)
\* t[0] or t[1] of the match from j to before e, then those of the matches from e on
TickerMatchesAt(s, j, e) ==
    <<IF At(s, j, "$") THEN SubSeq(s, j + 1, e - 1) ELSE SubSeq(s, j, SkipSet(s, j, UpperSet) - 1)>>
        \o TickerMatchesFrom(s, e)

\* The next match is at j, if any
TickerMatchesNext(s, j) == IF j = 0 THEN <<>> ELSE TickerMatchesAt(s, j, TickerEnd(s, j))

\* re.findall: t[0] or t[1] of each match, left to right
TickerMatchesFrom(s, i) == TickerMatchesNext(s, FirstOf({j \in i..Len(s) : TickerEnd(s, j) > 0}))

skip ==
    { "THE", "AND", "FOR", "ARE", "WE", "OUR", "CEO", "GDP", "EPS", "USD", "EUR",
      "THIS", "THAT", "LME", "WSA" }

\* set(t[0] or t[1] for t in ticker_matches if t[0] or t[1])
ticker_set(raw) ==
    LET ms == TickerMatchesFrom(raw, 1)
    IN  {ms[k] : k \in 1..Len(ms)}

\* The orders in which a set can be iterated: list(set(...)) fixes none
SetOrders(S) ==
    LET n == Cardinality(S)
    IN  {f \in [1..n -> S] : \A a, b \in 1..n : a # b => f[a] # f[b]}

\* [t for t in tickers if t not in skip][:3], with tickers = list(set(...)) in the order ord
extract_tickers(ord) == Take(SelectSeq(ord, LAMBDA tk : tk \notin skip), 3)

(***************************************************************************)
(* The template tables                                                     *)
(***************************************************************************)
VALID_CATEGORIES ==
    <<"Valuation", "Moats", "Psychology", "Business Models", "Capital Allocation", "Cycles", "Data">>

principles ==
       ("Valuation" :>
         "Valuation is ultimately about comparing what you pay to what you get. Markets frequently misprice assets when they extrapolate recent trends too far into the future, or when they fail to account for mean reversion in business fundamentals.")
    @@ ("Moats" :>
         "Sustainable competitive advantages come from structural barriers that competitors cannot easily replicate. The key is distinguishing between temporary advantages and durable moats that compound over time.")
    @@ ("Psychology" :>
         "Markets are driven by human behavior, which creates predictable patterns of overreaction and underreaction. Understanding these behavioral biases helps investors recognize when prices deviate from fundamentals.")
    @@ ("Business Models" :>
         "How a company makes money determines its long-term trajectory. Business model analysis reveals whether current earnings are sustainable and how management decisions affect future cash flows.")
    @@ ("Capital Allocation" :>
         "How management deploys capital often matters more than the underlying business quality. Great businesses can be destroyed by poor capital allocation, while mediocre businesses can create value through disciplined decisions.")
    @@ ("Cycles" :>
         "Industries and markets move in cycles that create recurring opportunities. Recognizing where you are in a cycle helps avoid buying at peaks and selling at troughs.")
    @@ ("Data" :>
         "The right metrics reveal what really drives business performance. Focusing on leading indicators rather than lagging ones helps anticipate changes before they appear in financial statements.")

applications ==
       ("Valuation" :>
         "When evaluating investments, compare the current price to historical ranges and peer valuations. Ask what assumptions are embedded in the price, and whether those assumptions are reasonable given the business fundamentals.")
    @@ ("Moats" :>
         "Look for businesses with pricing power, high switching costs, network effects, or cost advantages. Test the moat by asking: what would it take for a well-funded competitor to replicate this advantage?")
    @@ ("Psychology" :>
         "Notice when market sentiment becomes extreme in either direction. Ask whether the consensus view is based on facts or on extrapolation of recent events. Variant perceptions often emerge when reality differs from expectations.")
    @@ ("Business Models" :>
         "Map out how revenue flows through the business and what drives profitability. Consider how industry changes might affect each component of the model, and whether management has flexibility to adapt.")
    @@ ("Capital Allocation" :>
         "Track management's capital allocation decisions over time. Compare returns on invested capital to the cost of capital, and assess whether acquisitions and investments have created or destroyed value.")
    @@ ("Cycles" :>
         "Study the historical patterns in the industry and identify the typical cycle length and amplitude. Watch for leading indicators that signal cycle turns, and maintain discipline when cycles stretch longer than expected.")
    @@ ("Data" :>
         "Identify the 2-3 metrics that most directly drive the investment thesis. Understand what causes these metrics to change, and establish thresholds that would cause you to reassess your view.")

connective ==
    "This insight demonstrates these dynamics in practice. The pattern observed here has played out across many different industries and time periods, suggesting it reflects fundamental market behavior rather than a one-time occurrence."

\* The dash of the contrarian template is written "--" here.
expanded_templates ==
       ("contrarian" :>
         "Markets frequently anchor to conventional wisdom long after the underlying reality has changed. This represents a classic case where consensus thinking missed an important shift. When most investors agree on something, it often means the obvious factors are already priced in.\n\nThe outcome here illustrates why variant perception matters in investing. Being right is not enough--you need to be right when others are wrong. The challenge is distinguishing genuine insight from contrarian positioning for its own sake.\n\nTo apply this pattern, look for situations where the consensus relies on stale assumptions or ignores structural changes. Ask yourself: what would need to be true for the consensus to be correct, and is that still the case?")
    @@ ("stat" :>
         "Data only becomes valuable when placed in proper context. This metric reveals something important about the underlying business dynamics, but only when compared against the right benchmarks. A number in isolation tells you very little.\n\nThe key lesson is that great investors develop frameworks for contextualizing data quickly. They instinctively compare against historical ranges, peer medians, and their own expectations. The signal comes from deviation from these baselines.\n\nWhen evaluating metrics, always ask: Is this above or below historical averages? How does it compare to competitors? What would cause this number to change materially in either direction?")
    @@ ("mechanic" :>
         "Understanding the mechanics of how businesses actually operate provides an edge over surface-level analysis. Most investors focus on 'what happened' without understanding 'why' it happened. This deeper knowledge enables better predictions.\n\nThe pattern here generalizes beyond this specific example. Once you understand a business mechanism, you can recognize similar dynamics across different industries. Business models often rhyme across sectors and time periods.\n\nTo build this kind of structural knowledge, focus on understanding causation rather than just correlation. Ask how the business creates value, what drives its margins, and what could disrupt its model.")

type_to_category ==
       ("contrarian" :>
         "Psychology")
    @@ ("stat" :>
         "Data")
    @@ ("mechanic" :>
         "Business Models")
    @@ ("insight" :>
         "Psychology")

(***************************************************************************)
(* JSON values.  A value is a string (t = "str", s its text), a list        *)
(* (t = "list", l its items, strings here), a number other than zero       *)
(* (t = "num") or null (t = "null").  An element of a batch or of a        *)
(* response is an object (isdict = TRUE, d its fields) or something else.  *)
(***************************************************************************)
Str(s) == [t |-> "str", s |-> s, l |-> <<>>]

List(l) == [t |-> "list", s |-> "", l |-> l]

Num == [t |-> "num", s |-> "", l |-> <<>>]

Null == [t |-> "null", s |-> "", l |-> <<>>]

\* bool(v)
Truthy(v) ==
    CASE v.t = "str"  -> v.s # ""
      [] v.t = "list" -> v.l # <<>>
      [] v.t = "num"  -> TRUE
      [] v.t = "null" -> FALSE

Dict(d) == [isdict |-> TRUE, d |-> d]

\* A JSON value that is no object, as a record: a string, a list, a number
\* or null
Scalar(v) == [isdict |-> FALSE, d |-> v]

\* A record that is a number
NotDict == Scalar(Num)

\* key in item, for an item that is a string (a substring test) or a list
\* (an element test)
In(key, v) ==
    IF v.t = "str" THEN Contains(v.s, key)
    ELSE \E k \in 1..Len(v.l) : v.l[k] = Str(key)

\* dict.get(k, default)
Get(d, k, default) == IF k \in DOMAIN d THEN d[k] ELSE default

\* What a generator call gives its caller: an exception (raised) or the cards,
\* and the number of calls it made to the generation service.
Returned(cards, calls) == [raised |-> FALSE, cards |-> cards, calls |-> calls]

Raised(calls) == [raised |-> TRUE, cards |-> <<>>, calls |-> calls]

(***************************************************************************)
(* generate_card_rules                                                     *)
(***************************************************************************)
\* insight.get("insight", insight.get("view", insight.get("prediction", "")))
raw_of(d) == Get(d, "insight", Get(d, "view", Get(d, "prediction", Str(""))))

\* The best sentence: the first that holds one of the numbers, else the first
best_sentence(sentences, numbers) ==
    sentences[Max(1, FirstOf({k \in 1..Len(sentences) :
        \E n \in 1..Len(numbers) : Contains(Lower(sentences[k]), Lower(numbers[n]))}))]

\* The context sentence: the first other sentence longer than 20, "" when none
context_sentence(sentences, best) ==
    LET hits == {k \in 1..Len(sentences) : sentences[k] # best /\ Len(sentences[k]) > 20}
    IN  IF hits = {} THEN "" ELSE sentences[MinOf(hits)]

\* A variant of join_sentences that closes the second sentence with a period
join_closed(best, context) == IF context # "" THEN best \o ". " \o context \o "." ELSE best

\* card_text before truncation
\* f"{best_sentence}. {context_sentence}" if context_sentence else best_sentence
join_sentences(best, context) == IF context # "" THEN best \o ". " \o context ELSE best

\* The two sentences of the card, given the best one
with_context(sentences, best) == join_sentences(best, context_sentence(sentences, best))

\* card_text before truncation
compose(sentences, numbers) ==
    clean_prose(remove_hedging(with_context(sentences, best_sentence(sentences, numbers))))

\* card_text.split('. ')[0] + '.'
first_sentence(card_text) ==
    LET j == FindFrom(card_text, ". ", 1)
    IN  (IF j = 0 THEN card_text ELSE SubSeq(card_text, 1, j - 1)) \o "."

\* The text after the "truncate at sentence boundaries" step
truncate(card_text) == IF Len(card_text) > 280 THEN first_sentence(card_text) ELSE card_text

contrarian_words == {"contrary", "unlike", "wrong", "disagree", "consensus", "miss"}

mechanic_words == {"because", "driven by", "due to", "works by", "mechanism"}

card_type_of(content, numbers) ==
    LET lower == Lower(content)
    IN  IF \E w \in contrarian_words : Contains(lower, w) THEN "contrarian"
        ELSE IF numbers # <<>> THEN "stat"
        ELSE IF \E w \in mechanic_words : Contains(lower, w) THEN "mechanic"
        ELSE "insight"

\* The orphan-start fix: card_text[card_text.find(' ', 5)+1:] if ' ' in card_text[5:15]
fix_orphan(card_text) ==
    IF \E p \in {"that ", "this ", "it "} : StartsWith(card_text, p)
    THEN IF Contains(SubSeq(card_text, 6, Min(15, Len(card_text))), " ")
         THEN From(card_text, FindFrom(card_text, " ", 6) + 1)
         ELSE card_text
    ELSE card_text

\* The card record of the rule path (its id and created_at are set by the caller's step)
rule_card(card_type, card_text, tickers, title) ==
    [ type |-> card_type,
      content |-> card_text,
      expanded |-> Get(expanded_templates, card_type, expanded_templates["mechanic"]),
      tickers |-> tickers,
      source |-> "bernstein",
      source_title |-> title,
      categories |-> <<Get(type_to_category, card_type, "Psychology")>> ]

\* The end of generate_card_rules without the completeness check
unchecked_card(card_type, final_text, tickers, title) ==
    Returned(<<rule_card(card_type, final_text, tickers, title)>>, 0)

\* The end of generate_card_rules: the completeness check on the text after
\* the orphan-start fix, and the card
complete_card(card_type, final_text, tickers, title) ==
    IF ~is_complete_card(final_text) THEN Returned(<<>>, 0)
    ELSE Returned(<<rule_card(card_type, final_text, tickers, title)>>, 0)

\* From the truncated text on: a text that could not be truncated or is under
\* 30 characters gives no card; the orphan-start fix comes after that check
checked_card(card_type, card_text, tickers, title) ==
    IF Len(card_text) > 280 THEN Returned(<<>>, 0)
    ELSE IF Len(card_text) < 30 THEN Returned(<<>>, 0)
    ELSE complete_card(card_type, fix_orphan(card_text), tickers, title)

\* From the extracted numbers and sentences on
composed_card(content, numbers, sentences, tickers, title) ==
    IF sentences = <<>> THEN Returned(<<>>, 0)
    ELSE checked_card(card_type_of(content, numbers), truncate(compose(sentences, numbers)),
                      tickers, title)

\* From the cleaned body on
content_card(content, tickers, title) ==
    IF Len(content) < 40 THEN Returned(<<>>, 0)
    ELSE composed_card(content, extract_numbers(content), Sentences(content, 15), tickers, title)

\* generate_card_rules(insight); ord is the order in which the set of ticker
\* matches is iterated
generate_card_rules(insight, ord) ==
    IF ~insight.isdict THEN Raised(0)
    ELSE IF raw_of(insight.d).t # "str" THEN Raised(0)
    ELSE content_card(clean_text(raw_of(insight.d).s), extract_tickers(ord),
                      Get(insight.d, "title", Str("")))

(***************************************************************************)
(* The generation service.  HAS_ANTHROPIC is the module's flag: the client *)
(* exists exactly when it is set.                                          *)
(***************************************************************************)
VARIABLES HAS_ANTHROPIC

\* The template text of a category; the texts of Psychology stand in for a
\* category the tables do not have
expanded_template(category) ==
    Get(principles, category, principles["Psychology"]) \o "\n\n"
        \o connective \o "\n\n"
        \o Get(applications, category, applications["Psychology"])

\* A variant of generate_expanded_content without the fallback to the template
expanded_unchecked(card_content, category, card_type, exp) == Strip(exp.text)

\* generate_expanded_content(card_content, category, card_type); exp is what
\* the deep-dive call does when it is made: it raises, or answers exp.text
generate_expanded_content(card_content, category, card_type, exp) ==
    IF HAS_ANTHROPIC /\ ~exp.raises /\ Len(Strip(exp.text)) > 100
    THEN Strip(exp.text)
    ELSE expanded_template(category)

\* re.search(r'\[.*\]', text, re.DOTALL), re.search(r'\{.*\}', text, re.DOTALL):
\* an opening bracket with a closing one somewhere after it
HasBracketed(text, open, close) ==
    LET j == FindFrom(text, open, 1)
    IN  j > 0 /\ FindFrom(text, close, j + 1) > 0

\* The part of the response text that generate_card_ai hands to json.loads:
\* "whole" (the text opens with [), "object" (it opens with {), "array_in" and
\* "object_in" (a bracketed part found by the searches), "none"
json_part(text) ==
    IF StartsWith(text, "[") THEN "whole"
    ELSE IF StartsWith(text, "{") THEN "object"
    ELSE IF HasBracketed(text, "[", "]") THEN "array_in"
    ELSE IF HasBracketed(text, "{", "}") THEN "object_in"
    ELSE "none"

\* [cat for cat in ai_cats if cat in VALID_CATEGORIES] or ["Psychology"]; a string
\* is iterated character by character, and no character is a category
card_cats_of(ai_cats) ==
    LET kept == IF ai_cats.t = "list"
                THEN SelectSeq(ai_cats.l, LAMBDA c : \E k \in 1..Len(VALID_CATEGORIES) : VALID_CATEGORIES[k] = c)
                ELSE <<>>
    IN  IF kept = <<>> THEN <<"Psychology">> ELSE kept

\* The card record of the service-backed path
ai_card(card, c, exp, title) ==
    LET card_cats == card_cats_of(Get(card.d, "categories", List(<<>>)))
        card_type == Get(card.d, "type", "lesson")
    IN  [ type |-> card_type,
          content |-> c,
          expanded |-> generate_expanded_content(c, card_cats[1], card_type, exp),
          tickers |-> Get(card.d, "tickers", <<>>),
          source |-> "bernstein",
          source_title |-> title,
          categories |-> card_cats ]

RECURSIVE validate(_, _, _, _, _)
\* The validation loop over the parsed cards, from the k-th on: err when a step
\* raises, else the valid cards; calls counts the deep-dive calls made
validate(cards, k, exps, title, acc) ==
    IF k > Len(cards) THEN [err |-> FALSE, valid |-> acc, calls |-> Len(acc)]
    ELSE LET card == cards[k]
             cv == Get(card.d, "content", Null)
             c == Capitalize(Strip(cv.s))
             ai_cats == Get(card.d, "categories", List(<<>>))
         IN  IF ~(card.isdict /\ Truthy(cv)) THEN validate(cards, k + 1, exps, title, acc)
             \* card["content"].strip() on something that is no string
             ELSE IF cv.t # "str" THEN [err |-> TRUE, valid |-> acc, calls |-> Len(acc)]
             ELSE IF ~(Len(c) > 30) THEN validate(cards, k + 1, exps, title, acc)
             \* iterating categories that are no list and no string
             ELSE IF ai_cats.t \notin {"list", "str"} THEN [err |-> TRUE, valid |-> acc, calls |-> Len(acc)]
             ELSE validate(cards, k + 1, exps, title, Append(acc, ai_card(card, c, exps[k], title)))

\* A variant of reaches_call without the check of the length
always_reaches(insight) ==
    /\ HAS_ANTHROPIC
    /\ insight.isdict
    /\ raw_of(insight.d).t = "str"

\* The steps of generate_card_ai before the generation call: the service is
\* there, the record is an object with a string body, and the cleaned body
\* has 30 characters or more
reaches_call(insight) ==
    /\ HAS_ANTHROPIC
    /\ insight.isdict
    /\ raw_of(insight.d).t = "str"
    /\ Len(clean_text(raw_of(insight.d).s)) >= 30

\* A variant of fallback in which the failure reaches the caller
propagate(rules, n) == Raised(n)

\* return generate_card_rules(insight), in the except clause and where nothing
\* parses or validates: the rule path's result, after n calls of the service
fallback(rules, n) == [rules EXCEPT !.calls = n]

\* generate_card_ai from the generation call on.  v is the outcome of the
\* validation loop on the parsed cards, rules what generate_card_rules returns
\* for the record.
answered(resp, v, rules) ==
    IF resp.raises THEN fallback(rules, 1)
    ELSE IF json_part(Strip(resp.text)) = "none" THEN fallback(rules, 1)
    ELSE IF ~resp.loads.ok THEN fallback(rules, 1)
    ELSE IF v.err \/ v.valid = <<>> THEN fallback(rules, 1 + v.calls)
    ELSE Returned(v.valid, 1 + v.calls)

\* generate_card_ai(insight).  resp is what the generation call does when it is
\* made: it raises, or answers resp.text, of which json.loads makes resp.loads
\* (ok and the cards, or not ok: it raises); exps are the deep-dive calls'
\* outcomes, one for each parsed card; ord as for generate_card_rules.
generate_card_ai(insight, resp, exps, ord) ==
    IF ~HAS_ANTHROPIC THEN generate_card_rules(insight, ord)
    ELSE IF ~insight.isdict THEN Raised(0)
    ELSE IF raw_of(insight.d).t # "str" THEN Raised(0)
    ELSE IF ~reaches_call(insight) THEN Returned(<<>>, 0)
    ELSE answered(resp, validate(resp.loads.cards, 1, exps, Get(insight.d, "title", Str("")), <<>>),
                  generate_card_rules(insight, ord))

(***************************************************************************)
(* load_data.  A document on disk is absent, malformed (json.load raises), *)
(* a list (its items) or an object (its fields d).                         *)
(***************************************************************************)
Absent == [shape |-> "absent", items |-> <<>>, d |-> <<>>]

Malformed == [shape |-> "malformed", items |-> <<>>, d |-> <<>>]

ListDoc(items) == [shape |-> "list", items |-> items, d |-> <<>>]

DictDoc(d) == [shape |-> "dict", items |-> <<>>, d |-> d]

\* data["ai_views"] is what json.load returned for ai_views.json, a list
\* (ListDoc) or an object (DictDoc)
EmptyData ==
    [insights |-> <<>>, contrarian_views |-> <<>>, ai_views |-> ListDoc(<<>>), custom |-> <<>>]

\* One file of the custom directory, inside its try block: the file is skipped
\* when json.load raises
load_custom(data, doc) ==
    CASE doc.shape = "list" -> [data EXCEPT !.custom = @ \o doc.items]
      [] doc.shape = "dict" ->
            IF "insights" \in DOMAIN doc.d THEN [data EXCEPT !.custom = @ \o doc.d["insights"]]
            ELSE IF "key_views" \in DOMAIN doc.d
            THEN \* an object has no append: the exception is caught, the file skipped
                 IF data.ai_views.shape = "list"
                 THEN [data EXCEPT !.ai_views.items = Append(@, Dict(doc.d))]
                 ELSE data
            ELSE [data EXCEPT !.custom = Append(@, Dict(doc.d))]
      [] OTHER -> data

RECURSIVE load_customs(_, _, _)
load_customs(data, docs, k) ==
    IF k > Len(docs) THEN data ELSE load_customs(load_custom(data, docs[k]), docs, k + 1)

\* load_data() on the documents files: raised when an exception leaves it
load_data(files) ==
    LET p == files.primary
        a == files.ai_views
        c == files.current
        d1 == IF p.shape = "dict"
              THEN [EmptyData EXCEPT !.insights = Get(p.d, "top_100_insights", <<>>),
                                     !.contrarian_views = Get(p.d, "contrarian_views", <<>>)]
              ELSE EmptyData
        d2 == IF a.shape = "list" THEN [d1 EXCEPT !.ai_views = ListDoc(a.items)]
              ELSE IF a.shape = "dict" THEN [d1 EXCEPT !.ai_views = DictDoc(a.d)]
              ELSE d1
        d3 == IF c.shape = "list" /\ a.shape # "dict"
              THEN [d2 EXCEPT !.ai_views.items = @ \o c.items]
              ELSE d2
    IN  \* json.load raises on a malformed file; d.get raises on a list;
        \* extend raises on data["ai_views"] when ai_views.json is an object
        IF \/ p.shape \in {"malformed", "list"}
           \/ a.shape = "malformed"
           \/ c.shape = "malformed"
           \/ (c.shape = "list" /\ a.shape = "dict")
        THEN [raised |-> TRUE, data |-> EmptyData]
        ELSE [raised |-> FALSE, data |-> load_customs(d3, files.custom, 1)]

(***************************************************************************)
(* main(use_ai)                                                            *)
(***************************************************************************)
VARIABLES
    use_ai,     \* the argument of main
    files,      \* the documents on disk
    pc,         \* where main is: load, insights, contrarian, reports, custom, dedupe, save, done, aborted
    data,       \* load_data's result; main writes the "insight" field of some records
    i,          \* the index of the loop main is in
    j,          \* the index of the loop over a report's key_views, 0 between two reports
    cards,      \* the cards generated so far
    origin,     \* history: the batch each card of cards came from, and the card as gen returned it
    seen,       \* the deduplication keys seen
    unique,     \* the cards kept by the deduplication
    output,     \* cards.json: written or not, and its content
    call        \* the last direct call of a generator function: its arguments and its result

\* The state of the card generator
generator == <<HAS_ANTHROPIC, use_ai, files, pc, data, i, j, cards, origin, seen, unique, output, call>>

\* The backend (src/backend/main.py): its database and its requests
VARIABLES
    users,          \* the committed rows of the table users, in the order of their insertion
    user_progress,  \* the committed rows of the table user_progress, by (user_id, card_id)
    writer,         \* the request whose connection holds the write lock, 0 when none
    reg,            \* the register_user requests: where each is, and its local variables
    job             \* the requests of a user: where each is, its handler and its arguments

backend == <<users, user_progress, writer, reg, job>>

vars == <<generator, backend>>

\* The most register_user requests, the most requests of users in flight at
\* a time, and the most quiz answers a row counts
MaxRequests == 2

MaxWorkers == 2

MaxAttempts == 2

\* A request of a user that has not started, or has ended
NoJob ==
    [pc |-> "idle", op |-> "", user_id |-> "", card_id |-> "", action |-> "", correct |-> FALSE]

\* A register_user request that has not started
NoRequest == [pc |-> "start", device_id |-> "", user_id |-> "", token |-> "", result |-> <<>>]

\* init_db() on a new database file: the tables exist and are empty; no
\* request has started
init_db ==
    /\ users = <<>>
    /\ user_progress = <<>>
    /\ writer = 0
    /\ reg = [r \in 1..MaxRequests |-> NoRequest]
    /\ job = [w \in 1..MaxWorkers |-> NoJob]

\* The caps of main's loops
InsightCap == 100

ContrarianCap == 50

ReportCap == 30

ViewCap == 2

\* The key of the deduplication: c["content"][:40]
KeyLen == 40

\* A variant of dedup_key that keys on the whole content
whole_content(c) == c.content

dedup_key(c) == Prefix(c.content, KeyLen)

\* A variant of dedupe in which the later card of a key replaces the earlier one
dedupe_last(kept, keys, c) ==
    IF dedup_key(c) \notin keys THEN Append(kept, c)
    ELSE [k \in 1..Len(kept) |-> IF dedup_key(kept[k]) = dedup_key(c) THEN c ELSE kept[k]]

\* if key not in seen: unique.append(c)
dedupe(kept, keys, c) == IF dedup_key(c) \notin keys THEN Append(kept, c) ELSE kept

\* gen = generate_card_ai if use_ai else generate_card_rules
gen(item, resp, exps, ord) ==
    IF use_ai THEN generate_card_ai(item, resp, exps, ord) ELSE generate_card_rules(item, ord)

\* The id and the time of creation of the cards a call returns: the n cards
\* made before them took the ids and the times 1..n
stamp(new, n) ==
    [k \in 1..Len(new) |-> new[k] @@ [id |-> n + k, created_at |-> n + k]]

\* for c in result: c["type"] = "contrarian"
as_contrarian(cs) == [k \in 1..Len(cs) |-> [cs[k] EXCEPT !.type = "contrarian"]]

\* item["insight"] = value
with_insight(item, value) == Dict(("insight" :> value) @@ item.d)

\* The item main builds for a view of a report
view_item(report, view) ==
    Dict([insight |-> view,
          title |-> Get(report.d, "title", Str("")),
          categories |-> List(<<"AI/Technology">>)])

\* report.get("key_views", [])[:2]
views_of(report) == Take(Get(report.d, "key_views", <<>>), ViewCap)

\* The normalisation of a custom item: content, then text, stand in for a
\* missing insight
normalise(item) ==
    IF "insight" \notin DOMAIN item.d /\ "content" \in DOMAIN item.d
    THEN with_insight(item, item.d["content"])
    ELSE IF "insight" \notin DOMAIN item.d /\ "text" \in DOMAIN item.d
    THEN with_insight(item, item.d["text"])
    ELSE item

(***************************************************************************)
(* The inputs: the documents on disk and what the service answers          *)
(***************************************************************************)
\* The most records, and documents that are no object or list of records,
\* on disk
MaxRecords == 2

Ferrari ==
    Dict([insight |-> Str("Ferrari trades at nearly 2x the luxury sector multiple. Their brand lets them raise prices 8-10% annually without killing demand. Pricing power is the moat."),
          title |-> Str("Ferrari Pricing Power")])

\* A body of 18 characters
ShortRecord == Dict([insight |-> Str("Moats matter most.")])

\* A body of 34 characters, under the key prediction
MidRecord == Dict([prediction |-> Str("Scale lowers unit costs over time.")])

\* A body of 61 characters of which clean_text leaves 5
SourceRecord == Dict([insight |-> Str("Source: company filings and our own estimates. See Exhibit 12")])

\* A body that is a number
NumRecord == Dict([insight |-> Num])

\* A body of 46 characters in two sentences
LongRecord == Dict([insight |-> Str("Costs fall with scale. Prices follow later on.")])

\* The records of top_100_insights: a body of 34 characters, the scenario of
\* the specification, a body of 18 characters, a number
InsightPool == <<MidRecord, Ferrari, ShortRecord, NotDict>>

\* A view with two tickers; a record with a body and no view; a number
ContrarianPool ==
    <<Dict([view |-> Str("Consensus is wrong on $TSLA and VOD LN.")]),
      Dict([insight |-> Str("Network effects compound quietly until a rival cannot catch up.")]),
      NotDict>>

\* A report of three views, one whose view is a number, a number
ReportPool ==
    <<Dict([title |-> Str("AI capex"),
            key_views |-> <<Str("Capex keeps rising as demand grows."),
                            Str("Short view."),
                            Str("A third view that the cap of two views leaves out entirely.")>>]),
      Dict([key_views |-> <<Num>>]),
      NotDict>>

\* The files of the custom directory: a list of a record without a body and
\* one with its body under text, an object with insights, a report, an
\* object with its body under content, a file that does not parse, a list
\* of a number, a list of a string and a list that hold none of the keys, a
\* list of a string that holds "text"
CustomPool ==
    <<ListDoc(<<Dict([note |-> Str("Nothing to see")]),
                Dict([text |-> Str("Switching costs keep churn very low.")])>>),
      DictDoc([insights |-> <<MidRecord>>]),
      DictDoc([title |-> Str("Custom report"),
               key_views |-> <<Str("Capital intensity is falling fast.")>>]),
      DictDoc([content |-> Str("Buybacks only add value when cheap.")]),
      Malformed,
      ListDoc(<<NotDict>>),
      ListDoc(<<Scalar(Str("a plain string")), Scalar(List(<<Str("x")>>))>>),
      ListDoc(<<Scalar(Str("some text"))>>)>>

\* The runs of at most n consecutive elements of pool
Windows(pool, n) ==
    UNION {{SubSeq(pool, a, b) : b \in (a - 1)..Min(Len(pool), a + n - 1)} : a \in 1..Len(pool)}

\* comprehensive_insights.json as an object: a key is there when its list is
\* not empty
PrimaryDoc(ins, con) ==
    DictDoc((IF ins = <<>> THEN <<>> ELSE [top_100_insights |-> ins])
            @@ (IF con = <<>> THEN <<>> ELSE [contrarian_views |-> con]))

Primaries ==
    {Absent, Malformed, ListDoc(<<>>)} \cup
    {PrimaryDoc(ins, con) : ins \in Windows(InsightPool, MaxRecords),
                            con \in Windows(ContrarianPool, MaxRecords)}

\* ai_views.json: absent, malformed, an object or a list of reports
ReportDocs ==
    {Absent, Malformed, DictDoc(ReportPool[1].d)}
        \cup {ListDoc(rs) : rs \in Windows(ReportPool, MaxRecords) \ {<<>>}}

\* current_views_2025.json: absent, malformed, an object or a list of a report
CurrentDocs == {Absent, Malformed, DictDoc(<<>>), ListDoc(<<ReportPool[1]>>)}

\* What a document counts for in MaxRecords
Weight(doc) ==
    CASE doc.shape = "absent" -> 0
      [] doc.shape = "list" -> Max(1, Len(doc.items))
      [] doc.shape = "dict" /\ DOMAIN doc.d \subseteq {"top_100_insights", "contrarian_views"} ->
            Max(1, Len(Get(doc.d, "top_100_insights", <<>>)) + Len(Get(doc.d, "contrarian_views", <<>>)))
      [] OTHER -> 1

\* The documents of docs that count for w
Weighing(docs, w) == {doc \in docs : Weight(doc) = w}

\* The ways to share at most MaxRecords among the four places
Shares == {w \in [1..4 -> 0..MaxRecords] : w[1] + w[2] + w[3] + w[4] <= MaxRecords}

FileSystems ==
    UNION {[primary : Weighing(Primaries, w[1]),
            ai_views : Weighing(ReportDocs, w[2]),
            current : Weighing(CurrentDocs, w[3]),
            custom : {c \in Windows(CustomPool, MaxRecords) : Len(c) = w[4]}] : w \in Shares}

\* an array of two cards whose contents share their first 40 characters
RespTwo ==
    [raises |-> FALSE, text |-> "[{\"type\": \"lesson\", \"content\": \"Pricing power is the clearest sign of a moat in any industry.\", \"tickers\": [], \"categories\": [\"Valuation\", \"Moats\"]}, {\"type\": \"pattern\", \"content\": \"Pricing power is the clearest sign of a moat over a full cycle.\", \"tickers\": [\"AAPL\"], \"categories\": [\"Bogus\"]}]", loads |-> [ok |-> TRUE, cards |-> <<Dict([type |-> "lesson", content |-> Str("Pricing power is the clearest sign of a moat in any industry."), tickers |-> <<>>, categories |-> List(<<"Valuation", "Moats">>)]), Dict([type |-> "pattern", content |-> Str("Pricing power is the clearest sign of a moat over a full cycle."), tickers |-> <<"AAPL">>, categories |-> List(<<"Bogus">>)])>>]]

\* a single object, with a type outside the enum and four tickers of the exclusion set
RespObject ==
    [raises |-> FALSE, text |-> "{\"type\": \"quote\", \"content\": \"Cycles turn when the marginal buyer disappears from the market.\", \"tickers\": [\"THE\", \"AND\", \"FOR\", \"ARE\"], \"categories\": \"Moats\"}", loads |-> [ok |-> TRUE, cards |-> <<Dict([type |-> "quote", content |-> Str("Cycles turn when the marginal buyer disappears from the market."), tickers |-> <<"THE", "AND", "FOR", "ARE">>, categories |-> Str("Moats")])>>]]

\* an array inside prose; the content has blanks around it and no capital
RespInText ==
    [raises |-> FALSE, text |-> "Here you go: [{\"content\": \"  pricing power is the clearest sign of a moat, always. \"}] enjoy", loads |-> [ok |-> TRUE, cards |-> <<Dict([content |-> Str("  pricing power is the clearest sign of a moat, always. ")])>>]]

\* the call raises
RespRaise ==
    [raises |-> TRUE, text |-> "", loads |-> [ok |-> FALSE, cards |-> <<>>]]

\* no JSON at all
RespProse ==
    [raises |-> FALSE, text |-> "Sorry, I cannot help with that.", loads |-> [ok |-> FALSE, cards |-> <<>>]]

\* an array cut short: json.loads raises
RespBadJson ==
    [raises |-> FALSE, text |-> "[{\"content\": ", loads |-> [ok |-> FALSE, cards |-> <<>>]]

\* an array none of whose elements validates
RespNoneValid ==
    [raises |-> FALSE, text |-> "[{\"content\": \"Too short.\"}, 5]", loads |-> [ok |-> TRUE, cards |-> <<Dict([content |-> Str("Too short.")]), NotDict>>]]

\* a valid card, then one whose content is a number: strip raises
RespThenRaise ==
    [raises |-> FALSE, text |-> "[{\"type\": \"pattern\", \"content\": \"Pricing power is the clearest sign of a moat over a full cycle.\", \"tickers\": [\"AAPL\"], \"categories\": [\"Bogus\"]}, {\"content\": 5}]", loads |-> [ok |-> TRUE, cards |-> <<Dict([type |-> "pattern", content |-> Str("Pricing power is the clearest sign of a moat over a full cycle."), tickers |-> <<"AAPL">>, categories |-> List(<<"Bogus">>)]), Dict([content |-> Num])>>]]

ResponsePool ==
    {RespTwo, RespObject, RespInText, RespRaise, RespProse, RespBadJson, RespNoneValid, RespThenRaise}

\* The deep-dive call raises
ExpRaise == [raises |-> TRUE, text |-> ""]

\* It answers 39 characters
ExpShort == [raises |-> FALSE, text |-> "Pricing power lets a firm raise prices."]

\* It answers 100 characters
ExpHundred ==
    [raises |-> FALSE,
     text |-> "Margins widen when a firm can lift prices faster than costs rise, and the gap compounds for decades."]

\* It answers 151 characters between blanks
ExpLong ==
    [raises |-> FALSE,
     text |-> "\n Pricing power shows up as the ability to raise prices without losing volume. It is rare, durable, and the market tends to underprice how long it lasts.\n"]

ExpPool == {ExpRaise, ExpShort, ExpHundred, ExpLong}

\* The deep-dive calls of one call of generate_card_ai, one for each parsed card
ExpansionPool == {<<ExpRaise, ExpLong>>, <<ExpShort, ExpHundred>>}

\* What the service may answer to the call made for item: where no call is
\* made, its answer is not consulted
Responses(item) == IF reaches_call(item) THEN ResponsePool ELSE {RespRaise}

\* What the deep-dive calls may do after resp: where no card validates, none is made
Expansions(resp) ==
    IF ~resp.raises /\ resp.loads.ok
       /\ validate(resp.loads.cards, 1, <<ExpRaise, ExpRaise>>, Str(""), <<>>).calls > 0
    THEN ExpansionPool
    ELSE {<<ExpRaise, ExpRaise>>}

\* The orders in which list(set(...)) may give the ticker matches of item
Orders(item) ==
    IF item.isdict /\ raw_of(item.d).t = "str"
    THEN SetOrders(ticker_set(raw_of(item.d).s))
    ELSE {<<>>}

NoCall ==
    [fn |-> "", item |-> NotDict, resp |-> RespRaise, exps |-> <<>>, ord |-> <<>>,
     category |-> "", exp |-> ExpRaise, result |-> Returned(<<>>, 0), text |-> "",
     input |-> "", accepted |-> FALSE]

NoOutput == [written |-> FALSE, total_cards |-> 0, cards |-> <<>>]


(***************************************************************************)
(* The run of main                                                         *)
(***************************************************************************)
Init ==
    /\ HAS_ANTHROPIC \in BOOLEAN
    /\ use_ai \in BOOLEAN
    /\ files \in FileSystems
    /\ pc = "load"
    /\ data = EmptyData
    /\ i = 0
    /\ j = 0
    /\ cards = <<>>
    /\ origin = <<>>
    /\ seen = {}
    /\ unique = <<>>
    /\ output = NoOutput
    /\ call = NoCall
    /\ init_db

\* data = load_data()
LoadData ==
    /\ pc = "load"
    /\ \E r \in {load_data(files)} :
         IF r.raised
         THEN pc' = "aborted" /\ UNCHANGED <<data, i>>
         ELSE pc' = "insights" /\ data' = r.data /\ i' = 1
    /\ UNCHANGED <<backend, HAS_ANTHROPIC, use_ai, files, j, cards, origin, seen, unique, output, call>>

\* cards.extend(gen(item)) for an item of batch; mark: the cards' type is set
\* to contrarian first.  An exception that leaves gen leaves main
Extend(item, batch, mark) ==
    \E resp \in (IF use_ai THEN Responses(item) ELSE {RespRaise}) :
      \E exps \in Expansions(resp) :
        \E ord \in Orders(item) :
          \E r \in {gen(item, resp, exps, ord)} :
            IF r.raised
            THEN pc' = "aborted" /\ UNCHANGED <<cards, origin>>
            ELSE /\ cards' = cards \o stamp(IF mark THEN as_contrarian(r.cards) ELSE r.cards,
                                            Len(cards))
                 /\ origin' = origin \o [k \in 1..Len(r.cards) |->
                                            [batch |-> batch, rec |-> i, view |-> j,
                                             built |-> stamp(r.cards, Len(cards))[k]]]
                 /\ pc' = pc

\* for i, item in enumerate(data["insights"][:100])
ProcessInsight ==
    /\ pc = "insights"
    /\ i <= Min(Len(data.insights), InsightCap)
    /\ Extend(data.insights[i], "insights", FALSE)
    /\ i' = IF pc' = "aborted" THEN i ELSE i + 1
    /\ UNCHANGED <<backend, HAS_ANTHROPIC, use_ai, files, data, j, seen, unique, output, call>>

EndInsights ==
    /\ pc = "insights"
    /\ i > Min(Len(data.insights), InsightCap)
    /\ pc' = "contrarian"
    /\ i' = 1
    /\ UNCHANGED <<backend, HAS_ANTHROPIC, use_ai, files, data, j, cards, origin, seen, unique, output, call>>

\* for item in data["contrarian_views"][:50]: the view becomes the item's
\* insight, in the loaded data
ProcessContrarian ==
    /\ pc = "contrarian"
    /\ i <= Min(Len(data.contrarian_views), ContrarianCap)
    /\ LET item == data.contrarian_views[i]
           viewed == with_insight(item, Get(item.d, "view", Str("")))
       IN  IF ~item.isdict
           THEN pc' = "aborted" /\ UNCHANGED <<data, cards, origin, i>>
           ELSE /\ data' = [data EXCEPT !.contrarian_views[i] = viewed]
                /\ Extend(viewed, "contrarian", TRUE)
                /\ i' = IF pc' = "aborted" THEN i ELSE i + 1
    /\ UNCHANGED <<backend, HAS_ANTHROPIC, use_ai, files, j, seen, unique, output, call>>

EndContrarian ==
    /\ pc = "contrarian"
    /\ i > Min(Len(data.contrarian_views), ContrarianCap)
    /\ pc' = "reports"
    /\ i' = 1
    /\ UNCHANGED <<backend, HAS_ANTHROPIC, use_ai, files, data, j, cards, origin, seen, unique, output, call>>

\* for report in data["ai_views"][:30]: title = report.get("title", "").
\* The slice raises when data["ai_views"] is an object
EnterReport ==
    /\ pc = "reports"
    /\ j = 0
    /\ data.ai_views.shape = "dict" \/ i <= Min(Len(data.ai_views.items), ReportCap)
    /\ IF data.ai_views.shape = "list" /\ data.ai_views.items[i].isdict
       THEN pc' = pc /\ j' = 1
       ELSE pc' = "aborted" /\ j' = j
    /\ UNCHANGED <<backend, HAS_ANTHROPIC, use_ai, files, data, i, cards, origin, seen, unique, output, call>>

\* for view in report.get("key_views", [])[:2]
ProcessView ==
    /\ pc = "reports"
    /\ j >= 1
    /\ j <= Len(views_of(data.ai_views.items[i]))
    /\ Extend(view_item(data.ai_views.items[i], views_of(data.ai_views.items[i])[j]), "reports", FALSE)
    /\ j' = IF pc' = "aborted" THEN j ELSE j + 1
    /\ UNCHANGED <<backend, HAS_ANTHROPIC, use_ai, files, data, i, seen, unique, output, call>>

EndReport ==
    /\ pc = "reports"
    /\ j >= 1
    /\ j > Len(views_of(data.ai_views.items[i]))
    /\ i' = i + 1
    /\ j' = 0
    /\ UNCHANGED <<backend, HAS_ANTHROPIC, use_ai, files, pc, data, cards, origin, seen, unique, output, call>>

EndReports ==
    /\ pc = "reports"
    /\ j = 0
    /\ data.ai_views.shape = "list"
    /\ i > Min(Len(data.ai_views.items), ReportCap)
    /\ pc' = "custom"
    /\ i' = 1
    /\ UNCHANGED <<backend, HAS_ANTHROPIC, use_ai, files, data, j, cards, origin, seen, unique, output, call>>

\* for i, item in enumerate(data["custom"]): the item is normalised in the
\* loaded data, and generates when it has an insight
ProcessCustom ==
    /\ pc = "custom"
    /\ i <= Len(data.custom)
    /\ LET item == data.custom[i]
       IN  IF ~item.isdict
           THEN \* a number or null has no "in"; a string or a list is
                \* skipped, unless it holds one of the three keys: it then
                \* is indexed by a string, or gen is called on it
                IF item.d.t \in {"num", "null"}
                      \/ \E key \in {"insight", "content", "text"} : In(key, item.d)
                THEN pc' = "aborted" /\ UNCHANGED <<data, cards, origin, i>>
                ELSE i' = i + 1 /\ UNCHANGED <<pc, data, cards, origin>>
           ELSE /\ data' = [data EXCEPT !.custom[i] = normalise(item)]
                /\ IF "insight" \in DOMAIN normalise(item).d
                   THEN Extend(normalise(item), "custom", FALSE)
                   ELSE UNCHANGED <<pc, cards, origin>>
                /\ i' = IF pc' = "aborted" THEN i ELSE i + 1
    /\ UNCHANGED <<backend, HAS_ANTHROPIC, use_ai, files, j, seen, unique, output, call>>

EndCustom ==
    /\ pc = "custom"
    /\ i > Len(data.custom)
    /\ pc' = "dedupe"
    /\ i' = 1
    /\ UNCHANGED <<backend, HAS_ANTHROPIC, use_ai, files, data, j, cards, origin, seen, unique, output, call>>

\* for c in cards: key = c["content"][:40] ...
DedupeStep ==
    /\ pc = "dedupe"
    /\ i <= Len(cards)
    /\ unique' = dedupe(unique, seen, cards[i])
    /\ seen' = seen \cup {dedup_key(cards[i])}
    /\ i' = i + 1
    /\ UNCHANGED <<backend, HAS_ANTHROPIC, use_ai, files, pc, data, j, cards, origin, output, call>>

EndDedupe ==
    /\ pc = "dedupe"
    /\ i > Len(cards)
    /\ pc' = "save"
    /\ UNCHANGED <<backend, HAS_ANTHROPIC, use_ai, files, data, i, j, cards, origin, seen, unique, output, call>>

\* json.dump({"generated_at": ..., "total_cards": len(unique), "cards": unique}, f)
Save ==
    /\ pc = "save"
    /\ output' = [written |-> TRUE, total_cards |-> Len(unique), cards |-> unique]
    /\ pc' = "done"
    /\ UNCHANGED <<backend, HAS_ANTHROPIC, use_ai, files, data, i, j, cards, origin, seen, unique, call>>

Next ==
    \/ LoadData
    \/ ProcessInsight
    \/ EndInsights
    \/ ProcessContrarian
    \/ EndContrarian
    \/ EnterReport
    \/ ProcessView
    \/ EndReport
    \/ EndReports
    \/ ProcessCustom
    \/ EndCustom
    \/ DedupeStep
    \/ EndDedupe
    \/ Save

Spec == Init /\ [][Next]_vars

(***************************************************************************)
(* The generator functions called directly                                 *)
(***************************************************************************)
\* Bodies of 29, 30 and 40 characters
Record29 == Dict([insight |-> Str("Scale cuts unit cost by a lot")])

Record30 == Dict([insight |-> Str("Scale cuts unit costs by a lot")])

Record40 == Dict([insight |-> Str("Scale lowers unit costs as volumes rise.")])

\* A body with a leading phrase, two hedges and a number
HedgedRecord ==
    Dict([insight |-> Str("We believe that margins may rise by 3%. Costs could fall quite a bit over time."),
          title |-> Str("Margins")])

\* A record without a body
TitleRecord == Dict([title |-> Str("No body")])

\* A body with four distinct ticker matches, none of them skipped
TickerRecord ==
    Dict([insight |-> Str("We own $AAPL and $MSFT and $GOOG and $AMZN because scale lowers costs. Margins keep rising as volumes grow over time."),
          title |-> Str("Holdings")])

\* A body of two sentences of 190 and 162 characters: the composed text is
\* over 280 characters
CutRecord ==
    Dict([insight |-> Str("Scale economies shared with customers lower unit costs year after year and widen the gap to every smaller rival in the market while the leader keeps reinvesting its savings into lower prices. Smaller rivals cannot follow the price cuts without losing money on every unit they sell so their volumes shrink further and their unit costs rise again each year.")])

RecordPool ==
    {Ferrari, ShortRecord, MidRecord, LongRecord, SourceRecord, NumRecord, NotDict,
     Record29, Record30, Record40, HedgedRecord, TitleRecord, TickerRecord, CutRecord,
     ContrarianPool[1], view_item(ReportPool[1], views_of(ReportPool[1])[1])}

CategoryPool == {VALID_CATEGORIES[k] : k \in 1..Len(VALID_CATEGORIES)} \cup {"AI/Technology"}

GenInit ==
    /\ HAS_ANTHROPIC \in BOOLEAN
    /\ use_ai = FALSE
    /\ files = [primary |-> Absent, ai_views |-> Absent, current |-> Absent, custom |-> <<>>]
    /\ pc = "call"
    /\ data = EmptyData
    /\ i = 0
    /\ j = 0
    /\ cards = <<>>
    /\ origin = <<>>
    /\ seen = {}
    /\ unique = <<>>
    /\ output = NoOutput
    /\ call = NoCall
    /\ init_db

\* generate_card_rules(item)
CallRules ==
    /\ pc = "call"
    /\ \E item \in RecordPool :
         \E ord \in Orders(item) :
           call' = [NoCall EXCEPT !.fn = "generate_card_rules", !.item = item, !.ord = ord,
                                  !.result = generate_card_rules(item, ord)]
    /\ pc' = "returned"
    /\ UNCHANGED <<backend, HAS_ANTHROPIC, use_ai, files, data, i, j, cards, origin, seen, unique, output>>

\* generate_card_ai(item)
CallAi ==
    /\ pc = "call"
    /\ \E item \in RecordPool :
         \E resp \in Responses(item) :
           \E exps \in Expansions(resp) :
             \E ord \in Orders(item) :
               call' = [NoCall EXCEPT !.fn = "generate_card_ai", !.item = item, !.resp = resp,
                                      !.exps = exps, !.ord = ord,
                                      !.result = generate_card_ai(item, resp, exps, ord)]
    /\ pc' = "returned"
    /\ UNCHANGED <<backend, HAS_ANTHROPIC, use_ai, files, data, i, j, cards, origin, seen, unique, output>>

\* generate_expanded_content(card_content, category, card_type)
CallExpanded ==
    /\ pc = "call"
    /\ \E category \in CategoryPool :
         \E exp \in ExpPool :
           call' = [NoCall EXCEPT !.fn = "generate_expanded_content", !.category = category, !.exp = exp,
                                  !.text = generate_expanded_content(
                                               "Pricing power is the clearest sign of a moat in any industry.",
                                               category, "lesson", exp)]
    /\ pc' = "returned"
    /\ UNCHANGED <<backend, HAS_ANTHROPIC, use_ai, files, data, i, j, cards, origin, seen, unique, output>>

\* Raw texts: the three removed spans inside, at the start and at the end of
\* a text, next to each other, texts without any, and a text whose blanks
\* are a vertical tab and a unit separator
RawTextPool ==
    { "a Exhibit 12 b",
      "CostsfellExhibit 1",
      "Exhibit 1 a",
      "Exhibit Exhibit 1 2",
      "Margins rose.  Source: Company data. Costs fell",
      "a For the exclusive use of x on 1-Jan-2024 b",
      "For the exclusive use of x on 1-Jan-2024 b",
      "Costs fell Source: Company data",
      "  Costs \t fell\n with scale. ",
      "Costs fell with scale.",
      "" }

\* clean_text(text)
CallCleanText ==
    /\ pc = "call"
    /\ \E text \in RawTextPool :
         call' = [NoCall EXCEPT !.fn = "clean_text", !.input = text, !.text = clean_text(text)]
    /\ pc' = "returned"
    /\ UNCHANGED <<backend, HAS_ANTHROPIC, use_ai, files, data, i, j, cards, origin, seen, unique, output>>

\* Card texts: two sentences ending in each kind of entry of bad_endings,
\* in other words, in three dots, and texts of one sentence
CardTextPool ==
    { "Scale lowers unit costs. We own strong brands such as.",
      "Scale lowers unit costs. Margins rise over time for example.",
      "Scale lowers unit costs. We own strong brands e.g.?",
      "Scale lowers unit costs. Margins rise over time i.e.!",
      "Scale lowers unit costs. We own strong brands including.",
      "Scale lowers unit costs. Margins follow The.",
      "Scale lowers unit costs. Margins rise with.",
      "Scale lowers unit costs. Margins rise over time.",
      "Scale lowers unit costs. Margins rise over time...",
      "Scale lowers unit costs. Margins rise rise over time.",
      "Scale lowers unit costs. Margins rise over time",
      "Scale lowers unit costs.",
      "" }

\* is_complete_card(card_text)
CallIsComplete ==
    /\ pc = "call"
    /\ \E text \in CardTextPool :
         call' = [NoCall EXCEPT !.fn = "is_complete_card", !.input = text,
                                !.accepted = is_complete_card(text)]
    /\ pc' = "returned"
    /\ UNCHANGED <<backend, HAS_ANTHROPIC, use_ai, files, data, i, j, cards, origin, seen, unique, output>>

GenNext ==
    \/ CallRules
    \/ CallAi
    \/ CallExpanded
    \/ CallCleanText
    \/ CallIsComplete

GenSpec == GenInit /\ [][GenNext]_vars

(***************************************************************************)
(* The backend: src/backend/main.py.  Every request opens its own          *)
(* connection; the handlers are plain functions, which the server runs in  *)
(* a pool of threads, so the steps of several requests interleave.  The    *)
(* database lets one connection write at a time, and a reader sees the     *)
(* committed rows only.  The first write statement of a connection takes   *)
(* the write lock, which the connection holds until it commits or closes;  *)
(* a statement that waits for the lock longer than the timeout of the      *)
(* connection raises sqlite3.OperationalError.                             *)
(***************************************************************************)
DevicePool == {"device-1", "device-2"}

\* What secrets.token_urlsafe(32) may return
TokenPool == {"tokA", "tokB"}

CardPool == {"card-1"}

\* hashlib.sha256(device_id.encode()).hexdigest()[:16]
user_id_of == ("device-1" :> "03204de92e11fc8c") @@ ("device-2" :> "588605bf5362e8b7")

\* SELECT * FROM users WHERE device_id = ?
select_by_device(rows, device_id) == SelectSeq(rows, LAMBDA u : u.device_id = device_id)

\* SELECT * FROM users WHERE token = ?
select_by_token(rows, token) == SelectSeq(rows, LAMBDA u : u.token = token)

\* id TEXT PRIMARY KEY, device_id TEXT UNIQUE, token TEXT UNIQUE
violates(rows, row) ==
    \E k \in 1..Len(rows) :
        \/ rows[k].id = row.id
        \/ rows[k].device_id = row.device_id
        \/ rows[k].token = row.token

\* An INSERT INTO users on a table without constraints
insert_unchecked(rows, row) == [raised |-> FALSE, rows |-> Append(rows, row)]

\* INSERT INTO users (id, device_id, token, created_at, last_active): the
\* statement raises sqlite3.IntegrityError when a constraint is violated
insert_user(rows, row) ==
    IF violates(rows, row) THEN [raised |-> TRUE, rows |-> rows]
    ELSE [raised |-> FALSE, rows |-> Append(rows, row)]

\* The row a request inserts
new_user(q) == [id |-> q.user_id, device_id |-> q.device_id, token |-> q.token, is_subscribed |-> 0]

\* register_user, from the start to "if existing": the SELECT, and the
\* return of the existing row's token and id
RegisterSelect(r) ==
    /\ reg[r].pc = "start"
    /\ \E device_id \in DevicePool :
         \E existing \in {select_by_device(users, device_id)} :
           reg' = [reg EXCEPT ![r] =
                     IF existing # <<>>
                     THEN [@ EXCEPT !.pc = "returned", !.device_id = device_id,
                                    !.result = <<[token |-> existing[1].token,
                                                  user_id |-> existing[1].id]>>]
                     ELSE [@ EXCEPT !.pc = "insert", !.device_id = device_id]]
    /\ UNCHANGED <<generator, users, user_progress, writer, job>>

\* register_user: user_id, token and the INSERT.  The statement takes the
\* write lock; when it raises, the exception leaves the handler with the
\* connection open
RegisterInsert(r) ==
    /\ reg[r].pc = "insert"
    /\ writer = 0
    /\ \E token \in TokenPool :
         \E q \in {[reg[r] EXCEPT !.user_id = user_id_of[reg[r].device_id], !.token = token]} :
           reg' = [reg EXCEPT ![r] =
                     IF insert_user(users, new_user(q)).raised
                     THEN [q EXCEPT !.pc = "raised"]
                     ELSE [q EXCEPT !.pc = "commit"]]
    /\ writer' = r
    /\ UNCHANGED <<generator, users, user_progress, job>>

\* register_user: the INSERT waits for the write lock of another connection
\* until the timeout of the connection, and raises sqlite3.OperationalError
RegisterBusy(r) ==
    /\ reg[r].pc = "insert"
    /\ writer # 0
    /\ reg' = [reg EXCEPT ![r].pc = "failed"]
    /\ UNCHANGED <<generator, users, user_progress, writer, job>>

\* register_user: conn.commit(), conn.close() and the return
RegisterCommit(r) ==
    /\ reg[r].pc = "commit"
    /\ users' = insert_user(users, new_user(reg[r])).rows
    /\ writer' = 0
    /\ reg' = [reg EXCEPT ![r] = [@ EXCEPT !.pc = "returned",
                                          !.result = <<[token |-> reg[r].token,
                                                        user_id |-> reg[r].user_id]>>]]
    /\ UNCHANGED <<generator, user_progress, job>>

\* The connection of a request that raised is finalised: its transaction is
\* rolled back and the lock is released
CloseConnection(r) ==
    /\ reg[r].pc = "raised"
    /\ writer' = 0
    /\ reg' = [reg EXCEPT ![r].pc = "failed"]
    /\ UNCHANGED <<generator, users, user_progress, job>>

AuthPool == {"", "tokA", "Bearer tokA", "Bearer tokB", "Bearer Bearer tokA", "Bearer tokABearer "}

ActionPool == {"seen", "saved", "unsaved", "deleted"}

\* s.replace(sub, ""): s without the occurrences of sub, found from the left
\* and not overlapping
RECURSIVE RemoveAll(_, _)
RemoveAll(s, sub) ==
    IF FindFrom(s, sub, 1) = 0 THEN s
    ELSE SubSeq(s, 1, FindFrom(s, sub, 1) - 1)
            \o RemoveAll(From(s, FindFrom(s, sub, 1) + Len(sub)), sub)

\* get_user_from_token(authorization): the rows of the user, none when the
\* header is missing, is no Bearer header or names no user
get_user_from_token(authorization) ==
    IF authorization = "" \/ ~StartsWith(authorization, "Bearer ") THEN <<>>
    ELSE select_by_token(users, RemoveAll(authorization, "Bearer "))

\* A row of user_progress as INSERT makes it: the columns that are not
\* named take their defaults
new_progress == [seen_at |-> "", saved |-> 0, quiz_attempts |-> 0, quiz_correct |-> 0]

\* INSERT ... ON CONFLICT(user_id, card_id) DO UPDATE: the row inserted when
\* the key is new, the row updated otherwise
upsert(table, key, inserted, updated) ==
    IF key \in DOMAIN table THEN [table EXCEPT ![key] = updated]
    ELSE table @@ (key :> inserted)

\* The statement of update_progress for an action
progress_statement(table, key, action) ==
    IF action = "seen"
    THEN upsert(table, key, [new_progress EXCEPT !.seen_at = "now"],
                IF key \in DOMAIN table THEN [table[key] EXCEPT !.seen_at = "now"] ELSE new_progress)
    ELSE IF action = "saved"
    THEN upsert(table, key, [new_progress EXCEPT !.saved = 1],
                IF key \in DOMAIN table THEN [table[key] EXCEPT !.saved = 1] ELSE new_progress)
    ELSE IF action = "unsaved"
    THEN (IF key \in DOMAIN table THEN [table EXCEPT ![key].saved = 0] ELSE table)
    ELSE table

\* 1 if data.correct else 0
as_int(correct) == IF correct THEN 1 ELSE 0

\* A variant of quiz_statement that counts every answer as correct
quiz_all_correct(table, key, correct) ==
    upsert(table, key,
           [new_progress EXCEPT !.quiz_attempts = 1, !.quiz_correct = 1],
           IF key \in DOMAIN table
           THEN [table[key] EXCEPT !.quiz_attempts = @ + 1, !.quiz_correct = @ + 1]
           ELSE new_progress)

\* The statement of submit_quiz_answer
quiz_statement(table, key, correct) ==
    upsert(table, key,
           [new_progress EXCEPT !.quiz_attempts = 1, !.quiz_correct = as_int(correct)],
           IF key \in DOMAIN table
           THEN [table[key] EXCEPT !.quiz_attempts = @ + 1, !.quiz_correct = @ + as_int(correct)]
           ELSE new_progress)

\* UPDATE users SET is_subscribed = 1 WHERE id = ?
subscribe_statement(rows, user_id) ==
    [k \in 1..Len(rows) |->
        IF rows[k].id = user_id THEN [rows[k] EXCEPT !.is_subscribed = 1] ELSE rows[k]]

\* The connection of the request of worker w, as the holder of the write lock
conn_of(w) == MaxRequests + w

\* The key of the row of user_progress a request works on
key_of(q) == <<q.user_id, q.card_id>>

\* A request with Depends(get_user_from_token): the dependency looks the
\* user up on a connection of its own; the handler raises 401 without a
\* user, and opens its connection otherwise
Request(w, authorization, op, card_id, action, correct) ==
    /\ job[w].pc = "idle"
    /\ \E user \in {get_user_from_token(authorization)} :
         job' = IF user = <<>> THEN job
                ELSE [job EXCEPT ![w] = [pc |-> "statement", op |-> op, user_id |-> user[1].id,
                                         card_id |-> card_id, action |-> action,
                                         correct |-> correct]]
    /\ UNCHANGED <<generator, users, user_progress, writer, reg>>

\* The first write statement of a request: it takes the write lock
Statement(w, op) ==
    /\ job[w].pc = "statement"
    /\ job[w].op = op
    /\ writer = 0
    /\ writer' = conn_of(w)
    /\ job' = [job EXCEPT ![w].pc = "commit"]
    /\ UNCHANGED <<generator, users, user_progress, reg>>

\* update_progress(data, user), to get_db()
UpdateProgress(w, authorization, card_id, action) ==
    Request(w, authorization, "update_progress", card_id, action, FALSE)

\* update_progress: the statement of the action; an action that is none of
\* the three executes no statement, and the request commits nothing and
\* returns
ProgressStatement(w) ==
    IF job[w].action \in {"seen", "saved", "unsaved"}
    THEN Statement(w, "update_progress")
    ELSE /\ job[w].pc = "statement"
         /\ job[w].op = "update_progress"
         /\ job' = [job EXCEPT ![w] = NoJob]
         /\ UNCHANGED <<generator, users, user_progress, writer, reg>>

\* update_progress: conn.commit(), conn.close() and the return
ProgressCommit(w) ==
    /\ job[w].pc = "commit"
    /\ job[w].op = "update_progress"
    /\ user_progress' = progress_statement(user_progress, key_of(job[w]), job[w].action)
    /\ writer' = 0
    /\ job' = [job EXCEPT ![w] = NoJob]
    /\ UNCHANGED <<generator, users, reg>>

\* A row of user_progress can count one more answer
Countable(key) == key \in DOMAIN user_progress => user_progress[key].quiz_attempts < MaxAttempts

\* submit_quiz_answer(data, user), to get_db()
SubmitQuizAnswer(w, authorization, card_id, correct) ==
    Request(w, authorization, "submit_quiz_answer", card_id, "", correct)

\* submit_quiz_answer: the statement, while the row can count
QuizStatement(w) ==
    /\ Countable(key_of(job[w]))
    /\ Statement(w, "submit_quiz_answer")

\* submit_quiz_answer: conn.commit(), conn.close() and the return
QuizCommit(w) ==
    /\ job[w].pc = "commit"
    /\ job[w].op = "submit_quiz_answer"
    /\ user_progress' = quiz_statement(user_progress, key_of(job[w]), job[w].correct)
    /\ writer' = 0
    /\ job' = [job EXCEPT ![w] = NoJob]
    /\ UNCHANGED <<generator, users, reg>>

\* verify_subscription(receipt, user), to get_db()
VerifySubscription(w, authorization) ==
    Request(w, authorization, "verify_subscription", "", "", FALSE)

\* verify_subscription: the UPDATE of users
SubscriptionStatement(w) == Statement(w, "verify_subscription")

\* verify_subscription: conn.commit(), conn.close() and the return
SubscriptionCommit(w) ==
    /\ job[w].pc = "commit"
    /\ job[w].op = "verify_subscription"
    /\ users' = subscribe_statement(users, job[w].user_id)
    /\ writer' = 0
    /\ job' = [job EXCEPT ![w] = NoJob]
    /\ UNCHANGED <<generator, user_progress, reg>>

\* The statement of a request waits for the write lock of another
\* connection until the timeout of its connection, and raises
\* sqlite3.OperationalError: the request ends and has written nothing
Busy(w) ==
    /\ job[w].pc = "statement"
    /\ job[w].op = "update_progress" => job[w].action \in {"seen", "saved", "unsaved"}
    /\ writer # 0
    /\ job' = [job EXCEPT ![w] = NoJob]
    /\ UNCHANGED <<generator, users, user_progress, writer, reg>>

\* The generator does not run while the backend is observed
GeneratorIdle ==
    /\ HAS_ANTHROPIC = FALSE
    /\ use_ai = FALSE
    /\ files = [primary |-> Absent, ai_views |-> Absent, current |-> Absent, custom |-> <<>>]
    /\ pc = "load"
    /\ data = EmptyData
    /\ i = 0
    /\ j = 0
    /\ cards = <<>>
    /\ origin = <<>>
    /\ seen = {}
    /\ unique = <<>>
    /\ output = NoOutput
    /\ call = NoCall

\* The writers of users: concurrent register_user and verify_subscription
\* requests on a new database
RegisterInit == GeneratorIdle /\ init_db

RegisterNext ==
    \/ \E r \in 1..MaxRequests : RegisterSelect(r)
    \/ \E r \in 1..MaxRequests : RegisterInsert(r)
    \/ \E r \in 1..MaxRequests : RegisterBusy(r)
    \/ \E r \in 1..MaxRequests : RegisterCommit(r)
    \/ \E r \in 1..MaxRequests : CloseConnection(r)
    \/ \E w \in 1..MaxWorkers, authorization \in AuthPool : VerifySubscription(w, authorization)
    \/ \E w \in 1..MaxWorkers : SubscriptionStatement(w)
    \/ \E w \in 1..MaxWorkers : SubscriptionCommit(w)
    \/ \E w \in 1..MaxWorkers : Busy(w)

RegisterSpec == RegisterInit /\ [][RegisterNext]_vars

\* The rows of users a database file holds from earlier registrations
\* (init_db creates the tables only if they do not exist)
UserTables ==
    { <<>>,
      <<[id |-> user_id_of["device-1"], device_id |-> "device-1", token |-> "tokA", is_subscribed |-> 0]>>,
      <<[id |-> user_id_of["device-1"], device_id |-> "device-1", token |-> "tokA", is_subscribed |-> 1],
        [id |-> user_id_of["device-2"], device_id |-> "device-2", token |-> "tokB", is_subscribed |-> 0]>> }

\* The writers of user_progress: concurrent update_progress and
\* submit_quiz_answer requests of the registered users
ProgressInit ==
    /\ GeneratorIdle
    /\ users \in UserTables
    /\ user_progress = <<>>
    /\ writer = 0
    /\ reg = [r \in 1..MaxRequests |-> NoRequest]
    /\ job = [w \in 1..MaxWorkers |-> NoJob]

ProgressNext ==
    \/ \E w \in 1..MaxWorkers, authorization \in AuthPool, card_id \in CardPool, action \in ActionPool :
          UpdateProgress(w, authorization, card_id, action)
    \/ \E w \in 1..MaxWorkers : ProgressStatement(w)
    \/ \E w \in 1..MaxWorkers : ProgressCommit(w)
    \/ \E w \in 1..MaxWorkers, authorization \in AuthPool, card_id \in CardPool, correct \in BOOLEAN :
          SubmitQuizAnswer(w, authorization, card_id, correct)
    \/ \E w \in 1..MaxWorkers : QuizStatement(w)
    \/ \E w \in 1..MaxWorkers : QuizCommit(w)
    \/ \E w \in 1..MaxWorkers : Busy(w)

ProgressSpec == ProgressInit /\ [][ProgressNext]_vars

(***************************************************************************)
(* Properties                                                              *)
(***************************************************************************)
\* The first 40 characters of a card's content
Prefix40(c) == Prefix(c.content, 40)

\* C1: once main has written cards.json, no two cards of the written
\* sequence have the same first 40 characters of content.
C1_NoSharedPrefix ==
    output.written =>
        \A a, b \in 1..Len(output.cards) :
            a # b => Prefix40(output.cards[a]) # Prefix40(output.cards[b])

\* C1 happens: two cards are written and a third, of the prefix of one of
\* them, was dropped.
C1_Witness ==
    /\ output.written
    /\ Len(output.cards) >= 2
    /\ Len(cards) > Len(output.cards)

\* The rank of a batch in main's order
BatchRank == ("insights" :> 1) @@ ("contrarian" :> 2) @@ ("reports" :> 3) @@ ("custom" :> 4)

\* Card a comes from a record that main processes no later than that of card b
NoLater(a, b) ==
    \/ BatchRank[a.batch] < BatchRank[b.batch]
    \/ /\ a.batch = b.batch
       /\ \/ a.rec < b.rec
          \/ a.rec = b.rec /\ a.view <= b.view

\* The positions of cards whose prefix no earlier card has
FirstSeen == {k \in 1..Len(cards) : \A m \in 1..(k - 1) : Prefix40(cards[m]) # Prefix40(cards[k])}

\* The n-th position of FirstSeen
NthFirstSeen(n) == CHOOSE q \in FirstSeen : Cardinality({r \in FirstSeen : r < q}) = n - 1

\* C2: the cards are generated in the order primary insights, contrarian
\* views, report views, custom entries, and in the order of the records
\* within a batch; the written sequence is made of exactly the cards whose
\* 40-character prefix no card generated earlier has, in that order: of two
\* cards with the same prefix the earlier is written and the later dropped.
C2_FirstSeenWins ==
    /\ Len(origin) = Len(cards)
    /\ \A a, b \in 1..Len(origin) : a < b => NoLater(origin[a], origin[b])
    /\ output.written =>
          /\ Len(output.cards) = Cardinality(FirstSeen)
          /\ \A n \in 1..Len(output.cards) : output.cards[n] = cards[NthFirstSeen(n)]

\* C2 happens: two cards of different batches have the same prefix, the
\* earlier is written and the later is not.
C2_Witness ==
    /\ output.written
    /\ \E a, b \in 1..Len(cards) :
          /\ a < b
          /\ origin[a].batch # origin[b].batch
          /\ Prefix40(cards[a]) = Prefix40(cards[b])
          /\ \E n \in 1..Len(output.cards) : output.cards[n] = cards[a]
          /\ \A n \in 1..Len(output.cards) : output.cards[n] # cards[b]

\* The record is an object whose body is a string
WellFormed(item) == item.isdict /\ raw_of(item.d).t = "str"

\* The body of a well-formed record
Body(item) == raw_of(item.d).s

\* The record of the spec's scenario and those like it: the cleaned body is
\* at most 280 characters in two or more sentences, each over 20
\* characters, it holds a number and no contrarian keyword
NumberedSentences(item) ==
    /\ WellFormed(item)
    /\ LET content == clean_text(Body(item))
       IN  /\ Len(content) <= 280
           /\ EndsWith(content, ".")
           /\ Len(Sentences(content, 20)) >= 2
           /\ Sentences(content, 20) = Sentences(content, 0)
           /\ extract_numbers(content) # <<>>
           /\ \A w \in contrarian_words : ~Contains(Lower(content), w)

\* C3: on the rule path a record of two or more complete sentences with a
\* number and no contrarian keyword yields exactly one card, of type stat
\* and categories <<"Data">>, whose content has two sentences or more, and
\* without tickers when the body has none.
C3_OneStatCard ==
    (call.fn = "generate_card_rules" /\ NumberedSentences(call.item)) =>
        /\ ~call.result.raised
        /\ Len(call.result.cards) = 1
        /\ call.result.cards[1].type = "stat"
        /\ call.result.cards[1].categories = <<"Data">>
        /\ Len(Sentences(call.result.cards[1].content, 0)) >= 2
        /\ (ticker_set(Body(call.item)) = {} => call.result.cards[1].tickers = <<>>)

\* C5: every written card has at most 3 tickers, none of them in the
\* exclusion set.
C5_TickersBounded ==
    output.written =>
        \A k \in 1..Len(output.cards) :
            /\ Len(output.cards[k].tickers) <= 3
            /\ \A t \in 1..Len(output.cards[k].tickers) : output.cards[k].tickers[t] \notin skip

CardTypes == {"stat", "mechanic", "contrarian", "insight", "lesson", "pattern", "framework"}

\* C6: every written card has one of the seven types and a category.
C6_TypeAndCategories ==
    output.written =>
        \A k \in 1..Len(output.cards) :
            /\ output.cards[k].type \in CardTypes
            /\ output.cards[k].categories # <<>>

\* No card of the parsed response passes the validation
NoneValidates(resp) ==
    \A k \in 1..Len(resp.loads.cards) :
        LET card == resp.loads.cards[k]
            cv == Get(card.d, "content", Null)
        IN  ~(card.isdict /\ cv.t = "str" /\ Len(Strip(cv.s)) > 30)

\* The service is not there, its call raises, its answer holds no JSON array
\* or object, or no card of it validates
Degraded(resp) ==
    \/ ~HAS_ANTHROPIC
    \/ resp.raises
    \/ ~resp.loads.ok
    \/ NoneValidates(resp)

\* C7: for a record whose body is a string, when the service is not there,
\* its call raises, its answer does not parse or none of its cards
\* validates, generate_card_ai returns the cards generate_card_rules returns
\* for the record, and raises nothing.
C7_DegradesToRules ==
    (call.fn = "generate_card_ai" /\ WellFormed(call.item) /\ Degraded(call.resp)) =>
        /\ ~call.result.raised
        /\ call.result.cards = generate_card_rules(call.item, call.ord).cards

\* C7 happens: the call of the service was made and raised, and
\* generate_card_ai returned.
C7_Witness ==
    /\ call.fn = "generate_card_ai"
    /\ HAS_ANTHROPIC
    /\ WellFormed(call.item)
    /\ call.resp.raises
    /\ call.result.calls = 1
    /\ ~call.result.raised

\* The template text of a category, that of Psychology for one without texts
TemplateText(category) ==
    LET cat == IF category \in DOMAIN principles THEN category ELSE "Psychology"
    IN  principles[cat] \o "\n\n" \o connective \o "\n\n" \o applications[cat]

\* C8: generate_expanded_content returns the template text of the category
\* (of Psychology for an unknown one) when the service is not there, its
\* call raises or it answers 100 characters or fewer; what it returns is
\* never empty, and no card a generator returns has an empty expanded.
C8_ExpandedNeverEmpty ==
    /\ call.fn = "generate_expanded_content" =>
          /\ call.text # ""
          /\ (~HAS_ANTHROPIC \/ call.exp.raises \/ Len(call.exp.text) <= 100) =>
                call.text = TemplateText(call.category)
    /\ \A k \in 1..Len(call.result.cards) : call.result.cards[k].expanded # ""

\* C8 happens: the service is there, its call raises, and the category has
\* no texts: the text of Psychology is returned.
C8_Witness ==
    /\ call.fn = "generate_expanded_content"
    /\ HAS_ANTHROPIC
    /\ call.exp.raises
    /\ call.category \notin DOMAIN principles
    /\ call.text = TemplateText("Psychology")

\* C9: a record whose body is shorter than 40 characters yields no card and
\* no error on the rule path; on the service-backed path one whose body is
\* shorter than 30 yields no card and no error, and the service is not called.
C9_ShortBodyNoCard ==
    /\ (call.fn = "generate_card_rules" /\ WellFormed(call.item) /\ Len(Body(call.item)) < 40) =>
          call.result = Returned(<<>>, 0)
    /\ (call.fn = "generate_card_ai" /\ WellFormed(call.item) /\ Len(Body(call.item)) < 30) =>
          call.result = Returned(<<>>, 0)

\* C9 happens: the service is there and generate_card_ai is called on a body
\* of 29 characters.
C9_Witness ==
    /\ call.fn = "generate_card_ai"
    /\ HAS_ANTHROPIC
    /\ call.item = Record29
    /\ call.result = Returned(<<>>, 0)

\* C10: a run of main never ends on an exception: it reaches the end and
\* writes cards.json.
C10_NeverAborts == pc # "aborted"

\* C12: no step of main changes a field of a card after the generator
\* function has constructed it: every card of the run, every card kept by
\* the deduplication and every card written is the card as gen returned it,
\* and the deduplication keeps a subsequence of whole cards.
C12_CardsNeverModified ==
    /\ \A k \in 1..Len(cards) : cards[k] = origin[k].built
    /\ \A k \in 1..Len(unique) : \E m \in 1..Len(cards) : unique[k] = origin[m].built
    /\ \A k \in 1..Len(output.cards) : \E m \in 1..Len(cards) : output.cards[k] = origin[m].built

\* C13: input records are never mutated: after a run of main, every loaded
\* record (primary, contrarian, report and custom) has exactly the fields
\* and values load_data returned.
C13_RecordsNeverMutated == pc = "done" => data = load_data(files).data

\* C15: clean_text is idempotent: cleaning a cleaned text changes nothing.
C15_CleanIdempotent == call.fn = "clean_text" => clean_text(call.text) = call.text

\* text is words, then an entry of bad_endings as its last words, then
\* terminal punctuation only
EndsInBadEnding(text) ==
    \E p \in 1..(Len(text) - 1) :
        /\ \A q \in (p + 1)..Len(text) : Ch(text, q) \in Terminal
        /\ \E e \in bad_endings :
               \/ Lower(Prefix(text, p)) = e
               \/ EndsWith(Lower(Prefix(text, p)), " " \o e)

\* C16: is_complete_card rejects every text whose last words before the
\* terminal punctuation are an entry of bad_endings, the entries of several
\* words and the abbreviations included.
C16_RejectsBadEndings ==
    (call.fn = "is_complete_card" /\ EndsInBadEnding(call.input)) => ~call.accepted

\* The (type, content, categories, tickers) tuples of a sequence of cards
Tuples(cs) == {<<cs[k].type, cs[k].content, cs[k].categories, cs[k].tickers>> : k \in 1..Len(cs)}

\* C11: the rule path is deterministic: whatever the order in which the set
\* of ticker matches is iterated, generate_card_rules gives the same outcome
\* and the same set of (type, content, categories, tickers) tuples for the
\* same record, also when the record has more than 3 distinct ticker matches.
C11_RulePathDeterministic ==
    call.fn = "generate_card_rules" =>
        \A ord \in Orders(call.item) :
            /\ generate_card_rules(call.item, ord).raised = call.result.raised
            /\ Tuples(generate_card_rules(call.item, ord).cards) = Tuples(call.result.cards)

\* C11 happens: generate_card_rules has run on a record with more than 3
\* distinct ticker matches, and another iteration order of the set keeps
\* three other tickers.
C11_Witness ==
    /\ call.fn = "generate_card_rules"
    /\ WellFormed(call.item)
    /\ Cardinality(ticker_set(raw_of(call.item.d).s) \ skip) > 3
    /\ ~call.result.raised
    /\ \E ord \in Orders(call.item) : extract_tickers(ord) # extract_tickers(call.ord)

\* The text generate_card_rules hands to its last checks for a well-formed
\* record: composed from the sentences of the cleaned body, then cut
CardText(content) == truncate(compose(Sentences(content, 15), extract_numbers(content)))

\* generate_card_rules on the cleaned body content gets as far as is_complete_card
ReachesCheck(content) ==
    /\ Len(content) >= 40
    /\ Sentences(content, 15) # <<>>
    /\ Len(CardText(content)) >= 30
    /\ Len(CardText(content)) <= 280

\* text does not end in terminal punctuation, or has fewer than two sentences
Unfinished(text) ==
    \/ ~(\E c \in Terminal : EndsWith(Strip(text), c))
    \/ Len(Sentences(Strip(text), 0)) < 2

\* C17: generate_card_rules returns the empty sequence for every record it
\* returns for: a text that gets as far as is_complete_card does not end in
\* terminal punctuation, or after the over-280 cut has fewer than two
\* sentences, and is_complete_card rejects it.
C17_RulesReturnNothing ==
    (call.fn = "generate_card_rules" /\ ~call.result.raised) =>
        /\ call.result.cards = <<>>
        /\ ReachesCheck(clean_text(Body(call.item))) =>
               /\ Unfinished(fix_orphan(CardText(clean_text(Body(call.item)))))
               /\ ~is_complete_card(fix_orphan(CardText(clean_text(Body(call.item)))))

\* C17 happens: generate_card_rules has run on a record whose composed text
\* was over 280 characters and was cut to one sentence and a period; the
\* text passed the length checks, is_complete_card rejected it and no card
\* was returned.
C17_Witness ==
    /\ call.fn = "generate_card_rules"
    /\ WellFormed(call.item)
    /\ ReachesCheck(clean_text(Body(call.item)))
    /\ Len(compose(Sentences(clean_text(Body(call.item)), 15),
                   extract_numbers(clean_text(Body(call.item))))) > 280
    /\ EndsWith(CardText(clean_text(Body(call.item))), ".")
    /\ call.result = Returned(<<>>, 0)

\* C18: for any number of register_user requests with the same device_id,
\* in any interleaving of their steps, at most one row of users has that
\* device_id, and the requests that return a result return the same token
\* and user_id.
C18_OneUserPerDevice ==
    /\ \A d \in DevicePool : Len(select_by_device(users, d)) <= 1
    /\ \A a, b \in 1..MaxRequests :
          (/\ reg[a].pc = "returned"
           /\ reg[b].pc = "returned"
           /\ reg[a].device_id = reg[b].device_id) => reg[a].result = reg[b].result

\* C18 happens: two requests with the same device_id both found no row; one
\* inserted the row and returned, the INSERT of the other raised, and a
\* single row has the device_id.
C18_Witness ==
    \E a, b \in 1..MaxRequests :
        /\ a # b
        /\ reg[a].device_id = reg[b].device_id
        /\ reg[a].pc = "returned"
        /\ reg[a].user_id # ""
        /\ reg[b].pc = "failed"
        /\ reg[b].user_id # ""
        /\ Len(select_by_device(users, reg[a].device_id)) = 1

\* The counters of the row of key, 0 when the table has no such row
Attempts(table, key) == IF key \in DOMAIN table THEN table[key].quiz_attempts ELSE 0

Correct(table, key) == IF key \in DOMAIN table THEN table[key].quiz_correct ELSE 0

\* Every row has 0 <= quiz_correct <= quiz_attempts
CountersInRange(table) ==
    \A key \in DOMAIN table :
        /\ 0 <= table[key].quiz_correct
        /\ table[key].quiz_correct <= table[key].quiz_attempts

\* The keys of the rows before or after a step
Keys == DOMAIN user_progress \cup DOMAIN user_progress'

\* The step of an answered submit_quiz_answer on key
Answered(key, correct) ==
    /\ Attempts(user_progress', key) = Attempts(user_progress, key) + 1
    /\ Correct(user_progress', key) = Correct(user_progress, key) + (IF correct THEN 1 ELSE 0)
    /\ \A other \in Keys \ {key} :
          /\ Attempts(user_progress', other) = Attempts(user_progress, other)
          /\ Correct(user_progress', other) = Correct(user_progress, other)

\* No counter of a row changes in the step
CountersKept ==
    \A key \in Keys :
        /\ Attempts(user_progress', key) = Attempts(user_progress, key)
        /\ Correct(user_progress', key) = Correct(user_progress, key)

\* The step is the commit and the return of a submit_quiz_answer of worker w
Answers(w) ==
    /\ job[w].pc = "commit"
    /\ job[w].op = "submit_quiz_answer"
    /\ job'[w].pc = "idle"

\* C19: every row of user_progress has 0 <= quiz_correct <= quiz_attempts;
\* a submit_quiz_answer of a user that returns raises quiz_attempts of its
\* row by exactly 1 and quiz_correct by 1 when the answer is correct and by
\* 0 otherwise, and changes no other row's counters; every other step, of
\* update_progress or of a request that fails, changes no counter.
C19_QuizCounters ==
    [][ /\ CountersInRange(user_progress')
        /\ \A w \in 1..MaxWorkers :
              Answers(w) => Answered(key_of(job[w]), job[w].correct)
        /\ (\A w \in 1..MaxWorkers : ~Answers(w)) => CountersKept ]_vars

\* C19 happens: a row has been seen and saved and has counted a wrong and a
\* correct answer.
C19_Witness ==
    \E key \in DOMAIN user_progress :
        /\ user_progress[key].quiz_attempts = 2
        /\ user_progress[key].quiz_correct = 1
        /\ user_progress[key].saved = 1
        /\ user_progress[key].seen_at # ""

====
